---- MODULE Spec2Model ----
(***************************************************************************)
(* A model of gts-validator: file discovery (strategy/fs.rs), the          *)
(* orchestrator validate_fs (lib.rs), the YAML scanner (format/yaml.rs),   *)
(* the command line (main.rs) and the output of the report (output.rs,     *)
(* report.rs); and of the gts_id of the error types of the trait GtsError  *)
(* (error_type.rs).  The identifier grammar, the tree walk and the JSON    *)
(* and Markdown scanners follow the specification: their files are not     *)
(* among the sources.                                                      *)
(*                                                                         *)
(* Text is modelled as a sequence of one-character strings, so that        *)
(* trimming, splitting into lines, prefix tests and the identifier         *)
(* grammar are computed character by character.  A path is a sequence of   *)
(* components.                                                             *)
(***************************************************************************)
EXTENDS Integers, Sequences, FiniteSets, TLC

(***************************************************************************)
(* Characters and strings                                                  *)
(***************************************************************************)
Digits == {"0","1","2","3","4","5","6","7","8","9"}

LowerLetters ==
  {"a","b","c","d","e","f","g","h","i","j","k","l","m",
   "n","o","p","q","r","s","t","u","v","w","x","y","z"}

UpperLetters ==
  {"A","B","C","D","E","F","G","H","I","J","K","L","M",
   "N","O","P","Q","R","S","T","U","V","W","X","Y","Z"}

Whitespace == {" ", "\t", "\n", "\r"}

IsAlnum(c) == c \in Digits \/ c \in LowerLetters \/ c \in UpperLetters

\* char::to_lowercase on the ASCII range
ToLowerTable ==
  [c \in UpperLetters |->
     CASE c = "A" -> "a" [] c = "B" -> "b" [] c = "C" -> "c" [] c = "D" -> "d"
       [] c = "E" -> "e" [] c = "F" -> "f" [] c = "G" -> "g" [] c = "H" -> "h"
       [] c = "I" -> "i" [] c = "J" -> "j" [] c = "K" -> "k" [] c = "L" -> "l"
       [] c = "M" -> "m" [] c = "N" -> "n" [] c = "O" -> "o" [] c = "P" -> "p"
       [] c = "Q" -> "q" [] c = "R" -> "r" [] c = "S" -> "s" [] c = "T" -> "t"
       [] c = "U" -> "u" [] c = "V" -> "v" [] c = "W" -> "w" [] c = "X" -> "x"
       [] c = "Y" -> "y" [] c = "Z" -> "z"]

LowerChar(c) == IF c \in UpperLetters THEN ToLowerTable[c] ELSE c

\* str::to_lowercase
ToLower(s) == [i \in 1..Len(s) |-> LowerChar(s[i])]

\* s[i..j] as a sequence (empty when j < i)
Sub(s, i, j) == IF j < i THEN <<>> ELSE SubSeq(s, i, j)

\* str::starts_with
StartsWith(s, p) == Len(p) <= Len(s) /\ Sub(s, 1, Len(p)) = p

\* p occurs in s at position i
OccursAt(s, p, i) == i >= 1 /\ i + Len(p) - 1 <= Len(s) /\ Sub(s, i, i + Len(p) - 1) = p

\* str::contains
Contains(s, p) == \E i \in 1..(Len(s) + 1) : OccursAt(s, p, i)

\* str::trim: strip leading and trailing whitespace
RECURSIVE TrimStart(_)
TrimStart(s) ==
  IF s # <<>> /\ Head(s) \in Whitespace THEN TrimStart(Tail(s)) ELSE s

RECURSIVE TrimEnd(_)
TrimEnd(s) ==
  IF s # <<>> /\ s[Len(s)] \in Whitespace THEN TrimEnd(Sub(s, 1, Len(s) - 1)) ELSE s

Trim(s) == TrimEnd(TrimStart(s))

\* the pieces of s between the positions of at
SplitAt(s, at) ==
  LET \* the k-th position of at, 0 before the first, Len(s) + 1 after the last
      CutAt(k) ==
        IF k = 0 THEN 0
        ELSE IF k > Cardinality(at) THEN Len(s) + 1
        ELSE CHOOSE i \in at : Cardinality({j \in at : j < i}) = k - 1
  IN [k \in 1..(Cardinality(at) + 1) |-> Sub(s, CutAt(k - 1) + 1, CutAt(k) - 1)]

\* str::split(sep) for a one-character separator: the pieces between
\* occurrences of sep, including empty ones
Split(s, sep) == SplitAt(s, {i \in 1..Len(s) : s[i] = sep})

\* the pieces without a trailing empty piece
DropLastEmpty(pieces) ==
  IF pieces[Len(pieces)] = <<>> THEN Sub(pieces, 1, Len(pieces) - 1) ELSE pieces

\* str::lines: the text between line feeds, a carriage return before a line
\* feed dropped, no last line after a final line feed
Lines(text) ==
  LET StripCarriageReturn(line) ==
        IF line # <<>> /\ line[Len(line)] = "\r"
        THEN Sub(line, 1, Len(line) - 1) ELSE line
      StripAll(lines) == [i \in 1..Len(lines) |-> StripCarriageReturn(lines[i])]
  IN StripAll(DropLastEmpty(Split(text, "\n")))

\* [&str]::join("\n")
RECURSIVE JoinLines(_)
JoinLines(lines) ==
  IF lines = <<>> THEN <<>>
  ELSE IF Len(lines) = 1 THEN lines[1]
  ELSE lines[1] \o <<"\n">> \o JoinLines(Tail(lines))

\* concatenation of a sequence of sequences
RECURSIVE Flatten(_)
Flatten(ss) == IF ss = <<>> THEN <<>> ELSE Head(ss) \o Flatten(Tail(ss))

(***************************************************************************)
(* Identifier grammar and vendor policy (validator.rs, not among the       *)
(* sources: taken from the specification, sections 4.1 and 4.2)            *)
(***************************************************************************)
\* "gts://"
GtsUriPrefix == <<"g","t","s",":","/","/">>

\* "gts."
GtsPrefix == <<"g","t","s",".">>

\* the fully qualified external form prefixes the chain with gts://
StripUri(s) ==
  IF StartsWith(s, GtsUriPrefix) THEN Sub(s, Len(GtsUriPrefix) + 1, Len(s)) ELSE s

\* a field: one or more alphanumerics or underscores (no hyphen)
IsField(f) == f # <<>> /\ \A i \in 1..Len(f) : IsAlnum(f[i]) \/ f[i] = "_"

IsDigitString(f) == f # <<>> /\ \A i \in 1..Len(f) : f[i] \in Digits

\* v<digits>
IsMajorVersion(f) == Len(f) >= 2 /\ f[1] = "v" /\ IsDigitString(Tail(f))

\* vendor.package.namespace.type.version, version v<digits> or v<digits>.<digits>
SegmentOk(piece) ==
  LET FieldsOk(f) ==
        /\ Len(f) \in {5, 6}
        /\ \A i \in 1..4 : IsField(f[i])
        /\ IsMajorVersion(f[5])
        /\ Len(f) = 6 => IsDigitString(f[6])
  IN FieldsOk(Split(piece, "."))

\* split on "~", the trailing empty piece discarded, "gts." stripped from the
\* first piece only
ChainPieces(s) ==
  LET StripGtsPrefix(kept) ==
        [i \in 1..Len(kept) |->
           IF i = 1 /\ StartsWith(kept[1], GtsPrefix)
           THEN Sub(kept[1], Len(GtsPrefix) + 1, Len(kept[1]))
           ELSE kept[i]]
  IN StripGtsPrefix(DropLastEmpty(Split(s, "~")))

WellFormed(cand) ==
  LET AllSegmentsOk(p) == Len(p) >= 1 /\ \A i \in 1..Len(p) : SegmentOk(p[i])
  IN AllSegmentsOk(ChainPieces(StripUri(cand)))

\* the vendor field of every segment of a well-formed chain
ChainVendors(cand) ==
  LET VendorsOf(p) == [i \in 1..Len(p) |-> Split(p[i], ".")[1]]
  IN VendorsOf(ChainPieces(StripUri(cand)))

\* "acme", "globex": example vendors, tolerated under every vendor policy
ExampleVendors == {<<"a","c","m","e">>, <<"g","l","o","b","e","x">>}

\* ValidationConfig.vendor: None or Some(expected)
NoVendor == [some |-> FALSE]

SomeVendor(v) == [some |-> TRUE, v |-> v]

\* Vendor policy: Any (no vendor) always succeeds; MustMatch(expected) fails
\* on a segment whose vendor is neither the expected one nor an example vendor
VendorOk(cand, vendor) ==
  LET VendorsAllowed(vs) ==
        \A i \in 1..Len(vs) : vs[i] = vendor.v \/ vs[i] \in ExampleVendors
  IN ~vendor.some \/ VendorsAllowed(ChainVendors(cand))

(***************************************************************************)
(* The value tree (serde_json::Value) and validation errors                *)
(***************************************************************************)
\* the printable ASCII characters in ascending order
AsciiOrder == <<
   " ", "!", "\"", "#", "$", "%", "&", "'", "(", ")", "*", "+",
   ",", "-", ".", "/", "0", "1", "2", "3", "4", "5", "6", "7",
   "8", "9", ":", ";", "<", "=", ">", "?", "@", "A", "B", "C",
   "D", "E", "F", "G", "H", "I", "J", "K", "L", "M", "N", "O",
   "P", "Q", "R", "S", "T", "U", "V", "W", "X", "Y", "Z", "[",
   "\\", "]", "^", "_", "a", "b", "c", "d", "e", "f", "g", "h",
   "i", "j", "k", "l", "m", "n", "o", "p", "q", "r", "s", "t",
   "u", "v", "w", "x", "y", "z", "{", "|", "}", "~">>

CharRank(c) == CHOOSE i \in 1..Len(AsciiOrder) : AsciiOrder[i] = c

\* byte-wise order of strings (str, OsStr)
RECURSIVE StrLess(_, _)
StrLess(a, b) ==
  IF b = <<>> THEN FALSE
  ELSE IF a = <<>> THEN TRUE
  ELSE IF Head(a) = Head(b) THEN StrLess(Tail(a), Tail(b))
  ELSE CharRank(Head(a)) < CharRank(Head(b))

VNull == [t |-> "null"]

VBool(b) == [t |-> "bool", b |-> b]

VNum(digits) == [t |-> "num", n |-> digits]

VStr(s) == [t |-> "str", s |-> s]

\* items: a sequence of values
VArr(items) == [t |-> "arr", a |-> items]

\* entries: a sequence of [k |-> key string, v |-> value]
VObj(entries) == [t |-> "obj", m |-> entries]

\* serde_json::Map (a BTreeMap): the entries in ascending order of their keys,
\* a key inserted again replaces the value it had
RECURSIVE MapInsert(_, _, _)
MapInsert(entries, key, value) ==
  IF entries = <<>> THEN <<[k |-> key, v |-> value]>>
  ELSE IF Head(entries).k = key THEN <<[k |-> key, v |-> value]>> \o Tail(entries)
  ELSE IF StrLess(key, Head(entries).k) THEN <<[k |-> key, v |-> value]>> \o entries
  ELSE <<Head(entries)>> \o MapInsert(Tail(entries), key, value)

RECURSIVE MapOf(_)
MapOf(entries) ==
  IF entries = <<>> THEN <<>>
  ELSE MapInsert(MapOf(Sub(entries, 1, Len(entries) - 1)),
                 entries[Len(entries)].k, entries[Len(entries)].v)

\* ValidationError: the file, the location (a JSON path, or the line number
\* for Markdown, as text), the kind of error and the offending text
MkError(file, at, kind, raw) == [file |-> file, at |-> at, kind |-> kind, raw |-> raw]

(***************************************************************************)
(* The YAML parser (serde_saphyr, a dependency): a model of block          *)
(* mappings, block sequences and plain or double-quoted scalars, enough    *)
(* to decide which documents parse and to what value                       *)
(***************************************************************************)
ParseFail == [ok |-> FALSE]

ParseOk(v) == [ok |-> TRUE, v |-> v]

IsBlank(line) == Trim(line) = <<>>

NonBlank(lines) == SelectSeq(lines, LAMBDA l : ~IsBlank(l))

\* number of leading spaces
Indent(line) == Len(line) - Len(TrimStart(line))

MinIndent(lines) ==
  LET LeastIndent(nb) ==
        CHOOSE n \in {Indent(nb[i]) : i \in 1..Len(nb)} :
          \A i \in 1..Len(nb) : n <= Indent(nb[i])
  IN LeastIndent(NonBlank(lines))

Dedent(lines, n) ==
  [i \in 1..Len(lines) |->
     IF IsBlank(lines[i]) THEN <<>> ELSE Sub(lines[i], n + 1, Len(lines[i]))]

\* position of the first ":" that ends a mapping key (followed by a space or
\* by the end of the line), 0 if there is none
KeySplit(line) ==
  LET LeastOrZero(ps) ==
        IF ps = {} THEN 0 ELSE CHOOSE i \in ps : \A j \in ps : i <= j
  IN LeastOrZero({i \in 1..Len(line) :
                    line[i] = ":" /\ (i = Len(line) \/ line[i + 1] = " ")})

IsSeqItem(line) == line = <<"-">> \/ StartsWith(line, <<"-", " ">>)

\* a plain or double-quoted scalar
ParseScalar(text) ==
  IF text = <<>> THEN ParseOk(VNull)
  ELSE IF Head(text) = "\"" THEN
    IF Len(text) >= 2 /\ text[Len(text)] = "\""
         /\ \A i \in 2..(Len(text) - 1) : text[i] # "\""
    THEN ParseOk(VStr(Sub(text, 2, Len(text) - 1)))
    ELSE ParseFail
  ELSE IF KeySplit(text) > 0 THEN ParseFail     \* mapping value not allowed here
  ELSE IF Head(text) \in {"*", "&", "!", "%", "@", "{", "[", "|", ">"} THEN ParseFail
  ELSE IF text \in {<<"n","u","l","l">>, <<"~">>} THEN ParseOk(VNull)
  ELSE IF text = <<"t","r","u","e">> THEN ParseOk(VBool(TRUE))
  ELSE IF text = <<"f","a","l","s","e">> THEN ParseOk(VBool(FALSE))
  ELSE IF IsDigitString(text) THEN ParseOk(VNum(text))
  ELSE ParseOk(VStr(text))

\* a multi-line plain scalar: continuation lines are folded with one space
RECURSIVE FoldScalar(_, _)
FoldScalar(text, more) ==
  IF more = <<>> THEN text
  ELSE FoldScalar(text \o <<" ">> \o Trim(Head(more)), Tail(more))

\* the lines grouped by the items of the block: each line at indent 0 starts
\* an item, the indented and blank lines after it belong to it
RECURSIVE BlockItems(_, _)
BlockItems(lines, acc) ==
  IF lines = <<>> THEN acc
  ELSE IF ~IsBlank(Head(lines)) /\ Indent(Head(lines)) = 0
  THEN BlockItems(Tail(lines), Append(acc, <<Head(lines)>>))
  ELSE BlockItems(Tail(lines),
                  [acc EXCEPT ![Len(acc)] = Append(acc[Len(acc)], Head(lines))])

ItemKind(item) ==
  IF IsSeqItem(item[1]) THEN "seq"
  ELSE IF KeySplit(item[1]) > 0 THEN "map"
  ELSE "scalar"

RECURSIVE ParseBlock(_)

\* one item of a block: a sequence item, a mapping entry or a lone scalar
ParseItem(item) ==
  LET \* the value of a mapping entry: the text after the key, or the nested block
      ParseEntry(inline, rest) ==
        IF inline = <<>> THEN ParseBlock(rest)
        ELSE IF Head(inline) = "\"" /\ NonBlank(rest) # <<>> THEN ParseFail
        ELSE ParseScalar(FoldScalar(inline, NonBlank(rest)))
  IN CASE ItemKind(item) = "seq" ->
            ParseBlock(<<<<" ", " ">> \o Sub(item[1], 3, Len(item[1]))>> \o Tail(item))
       [] ItemKind(item) = "map" ->
            ParseEntry(Trim(Sub(item[1], KeySplit(item[1]) + 1, Len(item[1]))),
                       Tail(item))
       [] OTHER -> ParseScalar(FoldScalar(item[1], NonBlank(Tail(item))))

ParseBlock(lines) ==
  LET KeyOf(item) == Sub(item[1], 1, KeySplit(item[1]) - 1)
      \* the value of a block from its items and their values
      CombineItems(items, kind, parsed) ==
        IF \E i \in 1..Len(items) : ItemKind(items[i]) # kind \/ ~parsed[i].ok
        THEN ParseFail
        ELSE CASE kind = "scalar" ->
                    IF Len(items) = 1 THEN parsed[1] ELSE ParseFail
               [] kind = "seq" ->
                    ParseOk(VArr([i \in 1..Len(items) |-> parsed[i].v]))
               [] OTHER ->
                    IF (\E i, j \in 1..Len(items) :
                          i < j /\ KeyOf(items[i]) = KeyOf(items[j]))
                         \/ (\E i \in 1..Len(items) : KeyOf(items[i]) = <<>>)
                    THEN ParseFail               \* duplicate or empty key
                    ELSE ParseOk(VObj(MapOf([i \in 1..Len(items) |->
                                               [k |-> KeyOf(items[i]),
                                                v |-> parsed[i].v]])))
      ParseItems(items) ==
        CombineItems(items, ItemKind(items[1]),
                     [i \in 1..Len(items) |-> ParseItem(items[i])])
      FirstNonBlank(d) ==
        CHOOSE i \in 1..Len(d) : ~IsBlank(d[i]) /\ \A j \in 1..(i - 1) : IsBlank(d[j])
      ParseDedented(d) ==
        IF Indent(d[FirstNonBlank(d)]) # 0 THEN ParseFail
        ELSE ParseItems(BlockItems(Sub(d, FirstNonBlank(d), Len(d)), <<>>))
  IN IF NonBlank(lines) = <<>> THEN ParseOk(VNull)
     ELSE ParseDedented(Dedent(lines, MinIndent(lines)))

\* a document marker of a YAML stream: "---" at the start of a line
IsYamlMarker(line) == TrimEnd(line) = <<"-", "-", "-">>

\* the documents of a stream: the lines between markers
RECURSIVE StreamDocs(_, _, _)
StreamDocs(lines, cur, acc) ==
  IF lines = <<>> THEN Append(acc, cur)
  ELSE IF IsYamlMarker(Head(lines))
       THEN StreamDocs(Tail(lines), <<>>, Append(acc, cur))
       ELSE StreamDocs(Tail(lines), Append(cur, Head(lines)), acc)

\* serde_saphyr::from_str: one document
ParseYamlDoc(text) ==
  LET ParseDocLines(lines) ==
        IF \E i \in 1..Len(lines) : IsYamlMarker(lines[i]) /\ i > 1
        THEN ParseFail
        ELSE ParseBlock(SelectSeq(lines, LAMBDA l : ~IsYamlMarker(l)))
  IN ParseDocLines(Lines(text))

\* serde_saphyr::from_multiple: every document of the stream, empty documents
\* left out; an error in any document fails the whole stream
ParseYamlStream(text) ==
  LET AllParsed(parsed) ==
        IF \E i \in 1..Len(parsed) : ~parsed[i].ok THEN ParseFail
        ELSE ParseOk([i \in 1..Len(parsed) |-> parsed[i].v])
      ParseDocs(docs) == AllParsed([i \in 1..Len(docs) |-> ParseBlock(docs[i])])
  IN ParseDocs(SelectSeq(StreamDocs(Lines(text), <<>>, <<>>),
                         LAMBDA d : NonBlank(d) # <<>>))

(***************************************************************************)
(* The tree walk shared by the JSON and YAML scanners (format/json.rs, not *)
(* among the sources: taken from the specification, section 4.4)           *)
(***************************************************************************)
\* a string is a candidate when it starts with "gts." (after "gts://")
IsCandidate(s) == StartsWith(StripUri(s), GtsPrefix)

\* the kinds of error of one candidate: a wildcard outside a pattern context,
\* a grammar violation, or a vendor mismatch
ValidateCandidate(cand, vendor, allow_wildcards) ==
  IF Contains(cand, <<"*">>)
  THEN IF allow_wildcards THEN <<>> ELSE <<"Wildcard">>
  ELSE IF ~WellFormed(cand) THEN <<"Malformed">>
  ELSE IF ~VendorOk(cand, vendor) THEN <<"VendorMismatch">>
  ELSE <<>>

\* one error for each kind
ErrorsOf(kinds, path, at, cand) ==
  [i \in 1..Len(kinds) |-> MkError(path, at, kinds[i], cand)]

CandidateErrors(cand, path, at, vendor, allow_wildcards) ==
  IF ~IsCandidate(cand) THEN <<>>
  ELSE ErrorsOf(ValidateCandidate(cand, vendor, allow_wildcards), path, at, cand)

DigitChar == <<"0","1","2","3","4","5","6","7","8","9">>

\* usize::to_string
RECURSIVE Decimal(_)
Decimal(n) ==
  IF n < 10 THEN <<DigitChar[n + 1]>>
  ELSE Decimal(n \div 10) \o <<DigitChar[(n % 10) + 1]>>

\* ".x-gts-ref"
XGtsRefSuffix == <<".","x","-","g","t","s","-","r","e","f">>

\* the value sits directly under a key named x-gts-ref
IsXGtsRef(json_path) ==
  Len(json_path) >= Len(XGtsRefSuffix)
    /\ Sub(json_path, Len(json_path) - Len(XGtsRefSuffix) + 1, Len(json_path))
         = XGtsRefSuffix

RECURSIVE WalkJsonValue(_, _, _, _, _)
WalkJsonValue(value, path, vendor, json_path, scan_keys) ==
  LET \* one member of an object: the key when keys are scanned, then the value
      WalkMember(entry, member) ==
        (IF scan_keys THEN CandidateErrors(entry.k, path, member, vendor, FALSE)
         ELSE <<>>)
          \o WalkJsonValue(entry.v, path, vendor, member, scan_keys)
  IN CASE value.t = "str" ->
            CandidateErrors(value.s, path, json_path, vendor, IsXGtsRef(json_path))
       [] value.t = "arr" ->
            Flatten([i \in 1..Len(value.a) |->
                       WalkJsonValue(value.a[i], path, vendor,
                                     json_path \o <<"[">> \o Decimal(i - 1) \o <<"]">>,
                                     scan_keys)])
       [] value.t = "obj" ->
            Flatten([i \in 1..Len(value.m) |->
                       WalkMember(value.m[i], json_path \o <<".">> \o value.m[i].k)])
       [] OTHER -> <<>>

\* the root path "$"
RootPath == <<"$">>

(***************************************************************************)
(* The YAML scanner (format/yaml.rs)                                       *)
(***************************************************************************)
\* "---"
Separator == <<"-", "-", "-">>

\* a variant that keeps a document of blanks
PushDocAlways(documents, current_doc) == Append(documents, JoinLines(current_doc))

\* documents.push(doc) unless doc.trim().is_empty(), doc the joined lines
PushDoc(documents, current_doc) ==
  IF Trim(JoinLines(current_doc)) # <<>>
  THEN Append(documents, JoinLines(current_doc)) ELSE documents

\* a variant that takes for a separator only the line that is "---" as it is
RECURSIVE SplitLoopExact(_, _, _)
SplitLoopExact(lines, current_doc, documents) ==
  IF lines = <<>> THEN PushDoc(documents, current_doc)
  ELSE IF Head(lines) = Separator
       THEN SplitLoopExact(Tail(lines), <<>>, PushDoc(documents, current_doc))
       ELSE SplitLoopExact(Tail(lines), Append(current_doc, Head(lines)), documents)

\* the loop of split_yaml_documents over content.lines()
RECURSIVE SplitLoop(_, _, _)
SplitLoop(lines, current_doc, documents) ==
  IF lines = <<>> THEN PushDoc(documents, current_doc)
  ELSE IF Trim(Head(lines)) = Separator
       THEN SplitLoop(Tail(lines), <<>>, PushDoc(documents, current_doc))
       ELSE SplitLoop(Tail(lines), Append(current_doc, Head(lines)), documents)

split_yaml_documents(content) == SplitLoop(Lines(content), <<>>, <<>>)

\* the fallback loop: a segment that fails to parse is skipped (continue)
\* the walk of a parsed document from the root, nothing for a parse error
WalkParsed(doc, path, vendor, scan_keys) ==
  IF doc.ok THEN WalkJsonValue(doc.v, path, vendor, RootPath, scan_keys) ELSE <<>>

\* a variant that gives up at the first segment that fails to parse
RECURSIVE ScanSegmentsAbort(_, _, _, _)
ScanSegmentsAbort(segments, path, vendor, scan_keys) ==
  IF segments = <<>> \/ ~ParseYamlDoc(Head(segments)).ok THEN <<>>
  ELSE WalkParsed(ParseYamlDoc(Head(segments)), path, vendor, scan_keys)
         \o ScanSegmentsAbort(Tail(segments), path, vendor, scan_keys)

RECURSIVE ScanSegments(_, _, _, _)
ScanSegments(segments, path, vendor, scan_keys) ==
  IF segments = <<>> THEN <<>>
  ELSE WalkParsed(ParseYamlDoc(Head(segments)), path, vendor, scan_keys)
         \o ScanSegments(Tail(segments), path, vendor, scan_keys)

\* a variant that walks nothing of a stream that parses as a whole
ScanYamlFallbackOnly(content, path, vendor, scan_keys) ==
  IF ParseYamlStream(content).ok THEN <<>>
  ELSE ScanSegments(split_yaml_documents(content), path, vendor, scan_keys)

\* a variant that walks the first document of a stream only
ScanYamlFirstOnly(content, path, vendor, scan_keys) ==
  IF ParseYamlStream(content).ok
  THEN (IF ParseYamlStream(content).v = <<>> THEN <<>>
        ELSE WalkJsonValue(ParseYamlStream(content).v[1], path, vendor, RootPath,
                           scan_keys))
  ELSE ScanSegments(split_yaml_documents(content), path, vendor, scan_keys)

\* a variant that walks document d of a stream from the path "$[d-1]"
ScanYamlDocPath(content, path, vendor, scan_keys) ==
  IF ParseYamlStream(content).ok
  THEN Flatten([i \in 1..Len(ParseYamlStream(content).v) |->
                  WalkJsonValue(ParseYamlStream(content).v[i], path, vendor,
                                RootPath \o <<"[">> \o Decimal(i - 1) \o <<"]">>,
                                scan_keys)])
  ELSE ScanSegments(split_yaml_documents(content), path, vendor, scan_keys)

\* the stream parsed as a whole: every document walked; otherwise the fallback
scan_yaml_content(content, path, vendor, scan_keys) ==
  LET ScanStream(stream) ==
        IF stream.ok
        THEN Flatten([i \in 1..Len(stream.v) |->
                        WalkJsonValue(stream.v[i], path, vendor, RootPath, scan_keys)])
        ELSE ScanSegments(split_yaml_documents(content), path, vendor, scan_keys)
  IN ScanStream(ParseYamlStream(content))

(***************************************************************************)
(* The JSON parser (serde_json, a dependency): objects, arrays, strings    *)
(* without escapes, numbers and the three literals                         *)
(***************************************************************************)
JsonFail == [ok |-> FALSE]

JsonOk(v, next) == [ok |-> TRUE, v |-> v, next |-> next]

\* the first position at or after i that holds no whitespace
RECURSIVE SkipWs(_, _)
SkipWs(s, i) == IF i <= Len(s) /\ s[i] \in Whitespace THEN SkipWs(s, i + 1) ELSE i

\* the first position at or after i that holds the character c, 0 if none
RECURSIVE FindChar(_, _, _)
FindChar(s, c, i) ==
  IF i > Len(s) THEN 0 ELSE IF s[i] = c THEN i ELSE FindChar(s, c, i + 1)

\* the first position at or after i that holds no digit
RECURSIVE SkipDigits(_, _)
SkipDigits(s, i) == IF i <= Len(s) /\ s[i] \in Digits THEN SkipDigits(s, i + 1) ELSE i

RECURSIVE ParseJsonValue(_, _)
RECURSIVE ParseJsonMembers(_, _, _)
RECURSIVE ParseJsonElements(_, _, _)

\* after "{" or ",": "key": value, then "," or "}"
ParseJsonMembers(s, i, acc) ==
  LET AfterMember(e, entries) ==
        IF e > Len(s) THEN JsonFail
        ELSE IF s[e] = "}" THEN JsonOk(VObj(entries), e + 1)
        ELSE IF s[e] = "," THEN ParseJsonMembers(s, e + 1, entries)
        ELSE JsonFail
      MemberValue(key, val) ==
        IF ~val.ok THEN JsonFail
        ELSE AfterMember(SkipWs(s, val.next), MapInsert(acc, key, val.v))
      MemberColon(k, q, c) ==
        IF c > Len(s) \/ s[c] # ":" THEN JsonFail
        ELSE MemberValue(Sub(s, k + 1, q - 1), ParseJsonValue(s, c + 1))
      MemberKey(k, q) ==
        IF q = 0 THEN JsonFail ELSE MemberColon(k, q, SkipWs(s, q + 1))
      MemberStart(k) ==
        IF k > Len(s) \/ s[k] # "\"" THEN JsonFail
        ELSE MemberKey(k, FindChar(s, "\"", k + 1))
  IN MemberStart(SkipWs(s, i))

\* after "[" or ",": value, then "," or "]"
ParseJsonElements(s, i, acc) ==
  LET AfterElement(e, items) ==
        IF e > Len(s) THEN JsonFail
        ELSE IF s[e] = "]" THEN JsonOk(VArr(items), e + 1)
        ELSE IF s[e] = "," THEN ParseJsonElements(s, e + 1, items)
        ELSE JsonFail
      ElementValue(val) ==
        IF ~val.ok THEN JsonFail
        ELSE AfterElement(SkipWs(s, val.next), Append(acc, val.v))
  IN ElementValue(ParseJsonValue(s, i))

\* the value that begins at or after i
ParseJsonValue(s, i) ==
  LET JsonString(k, q) ==
        IF q = 0 THEN JsonFail ELSE JsonOk(VStr(Sub(s, k + 1, q - 1)), q + 1)
      JsonObject(k, n) ==
        IF n <= Len(s) /\ s[n] = "}" THEN JsonOk(VObj(<<>>), n + 1)
        ELSE ParseJsonMembers(s, k + 1, <<>>)
      JsonArray(k, n) ==
        IF n <= Len(s) /\ s[n] = "]" THEN JsonOk(VArr(<<>>), n + 1)
        ELSE ParseJsonElements(s, k + 1, <<>>)
      JsonNumber(k, n) == JsonOk(VNum(Sub(s, k, n - 1)), n)
      JsonValueAt(k) ==
        IF k > Len(s) THEN JsonFail
        ELSE CASE s[k] = "\"" -> JsonString(k, FindChar(s, "\"", k + 1))
               [] s[k] = "{" -> JsonObject(k, SkipWs(s, k + 1))
               [] s[k] = "[" -> JsonArray(k, SkipWs(s, k + 1))
               [] s[k] \in Digits -> JsonNumber(k, SkipDigits(s, k))
               [] OccursAt(s, <<"t","r","u","e">>, k) -> JsonOk(VBool(TRUE), k + 4)
               [] OccursAt(s, <<"f","a","l","s","e">>, k) -> JsonOk(VBool(FALSE), k + 5)
               [] OccursAt(s, <<"n","u","l","l">>, k) -> JsonOk(VNull, k + 4)
               [] OTHER -> JsonFail
  IN JsonValueAt(SkipWs(s, i))

\* serde_json::from_str: one value and nothing but whitespace after it
ParseJson(content) ==
  LET WholeJson(val) ==
        IF val.ok /\ SkipWs(content, val.next) > Len(content)
        THEN ParseOk(val.v) ELSE ParseFail
  IN WholeJson(ParseJsonValue(content, 1))

(***************************************************************************)
(* The JSON scanner (format/json.rs, not among the sources: specification  *)
(* sections 4.4 and 7)                                                     *)
(***************************************************************************)
\* a file that is not valid JSON yields no errors
scan_json_content(content, path, vendor, scan_keys) ==
  WalkParsed(ParseJson(content), path, vendor, scan_keys)

(***************************************************************************)
(* The Markdown scanner (format/markdown.rs, not among the sources:        *)
(* specification sections 4.1 and 4.3)                                     *)
(***************************************************************************)
\* the characters a token is made of
IsTokenChar(c) == IsAlnum(c) \/ c \in {"_", ".", "~", "-"}

\* "gts." begins at i, at the start of a token
IsTokenStart(line, i) ==
  OccursAt(line, GtsPrefix, i) /\ (i = 1 \/ ~IsTokenChar(line[i - 1]))

\* the end of the run of token characters that begins at i
RECURSIVE TokenEnd(_, _)
TokenEnd(line, i) ==
  IF i < Len(line) /\ IsTokenChar(line[i + 1]) THEN TokenEnd(line, i + 1) ELSE i

\* Heuristic discovery: everything that begins with "gts."
HeuristicSpan(line, i) == Sub(line, i, TokenEnd(line, i))

\* the ends j of the well-formed chains gts.<segment>~(<segment>~)* that
\* begin at i
StrictEnds(line, i) ==
  {j \in i..Len(line) : line[j] = "~" /\ WellFormed(Sub(line, i, j))}

\* StrictSpecOnly discovery: the longest well-formed chain that begins at i,
\* nothing when there is none
StrictSpan(line, i) ==
  LET SpanTo(ends) ==
        IF ends = {} THEN <<>>
        ELSE Sub(line, i, CHOOSE j \in ends : \A k \in ends : k <= j)
  IN SpanTo(StrictEnds(line, i))

\* a skip token occurs, whatever its case, in the part of the line before i
Suppressed(line, i, skip_tokens) ==
  \E k \in 1..Len(skip_tokens) :
    Contains(ToLower(Sub(line, 1, i - 1)), ToLower(skip_tokens[k]))

\* the errors of the candidates of one line, from position i on
RECURSIVE ScanLineFrom(_, _, _, _, _, _, _)
ScanLineFrom(line, i, lineno, path, vendor, strict, skip_tokens) ==
  LET \* the candidate found at i: its errors unless a skip token suppresses
      \* it, then the rest of the line after it
      ScanCandidate(cand) ==
        (IF cand # <<>> /\ ~Suppressed(line, i, skip_tokens)
         THEN ErrorsOf(ValidateCandidate(cand, vendor, FALSE), path,
                       Decimal(lineno), cand)
         ELSE <<>>)
          \o ScanLineFrom(line, i + IF cand = <<>> THEN 1 ELSE Len(cand),
                          lineno, path, vendor, strict, skip_tokens)
  IN IF i > Len(line) THEN <<>>
     ELSE IF ~IsTokenStart(line, i)
          THEN ScanLineFrom(line, i + 1, lineno, path, vendor, strict, skip_tokens)
     ELSE ScanCandidate(IF strict THEN HeuristicSpan(line, i)
                        ELSE StrictSpan(line, i))

\* line by line, line numbers from 1
scan_markdown_content(content, path, vendor, strict, skip_tokens) ==
  LET ScanLines(lines) ==
        Flatten([n \in 1..Len(lines) |->
                   ScanLineFrom(lines[n], 1, n, path, vendor, strict, skip_tokens)])
  IN ScanLines(Lines(content))

(***************************************************************************)
(* Paths (std::path::PathBuf): a sequence of components, "." the current   *)
(* directory.  Equality and order are by components.                       *)
(***************************************************************************)
CurDir == <<".">>

\* Component: CurDir sorts before every Normal component
ComponentLess(a, b) ==
  IF a = CurDir THEN b # CurDir
  ELSE IF b = CurDir THEN FALSE
  ELSE StrLess(a, b)

\* Ord for Path: lexicographic by components
RECURSIVE PathLess(_, _)
PathLess(p, q) ==
  IF q = <<>> THEN FALSE
  ELSE IF p = <<>> THEN TRUE
  ELSE IF Head(p) = Head(q) THEN PathLess(Tail(p), Tail(q))
  ELSE ComponentLess(Head(p), Head(q))

\* Path::extension: what follows the last "." of the file name, none for a
\* name without "." or with its only "." in front
Extension(path) ==
  LET AfterLast(name, dots) ==
        IF dots = {} THEN <<>>
        ELSE Sub(name, (CHOOSE i \in dots : \A j \in dots : j <= i) + 1, Len(name))
      NameExtension(name) == AfterLast(name, {i \in 2..Len(name) : name[i] = "."})
  IN IF path = <<>> \/ path[Len(path)] = CurDir THEN <<>>
     ELSE NameExtension(path[Len(path)])

\* Path::display: the components joined by "/"
RECURSIVE PathText(_)
PathText(path) ==
  IF path = <<>> THEN <<>>
  ELSE IF Len(path) = 1 THEN path[1]
  ELSE path[1] \o <<"/">> \o PathText(Tail(path))

(***************************************************************************)
(* The file system: a map from locations (paths without "." components)    *)
(* to nodes, a directory or a file with its bytes                          *)
(***************************************************************************)
DirNode == [kind |-> "dir"]

\* utf8: the bytes are valid UTF-8; content: the text
FileNode(utf8, content) == [kind |-> "file", utf8 |-> utf8, content |-> content]

\* the location a path names
Location(path) == SelectSeq(path, LAMBDA c : c # CurDir)

Exists(fs, path) == Location(path) \in DOMAIN fs

IsFile(fs, path) == Exists(fs, path) /\ fs[Location(path)].kind = "file"

IsDir(fs, path) == Exists(fs, path) /\ fs[Location(path)].kind = "dir"

\* metadata.len()
ByteLen(content) == Len(content)

(***************************************************************************)
(* File discovery (strategy/fs.rs)                                         *)
(***************************************************************************)
\* "target", "node_modules", ".git", "vendor", ".gts-spec"
SKIP_DIRS == {<<"t","a","r","g","e","t">>, <<"n","o","d","e","_","m","o","d","u","l","e","s">>, <<".","g","i","t">>, <<"v","e","n","d","o","r">>, <<".","g","t","s","-","s","p","e","c">>}

\* glob::Pattern::matches: "*" any run of characters, "?" any one character
RECURSIVE GlobMatch(_, _)
GlobMatch(pat, s) ==
  IF pat = <<>> THEN s = <<>>
  ELSE IF Head(pat) = "*"
       THEN GlobMatch(Tail(pat), s) \/ (s # <<>> /\ GlobMatch(pat, Tail(s)))
  ELSE IF s = <<>> THEN FALSE
  ELSE (Head(pat) = "?" \/ Head(pat) = Head(s)) /\ GlobMatch(Tail(pat), Tail(s))

\* a pattern matches the whole path or the file name
matches_exclude(path, exclude_patterns) ==
  \E k \in 1..Len(exclude_patterns) :
    \/ GlobMatch(exclude_patterns[k], PathText(path))
    \/ path # <<>> /\ path[Len(path)] # CurDir
         /\ GlobMatch(exclude_patterns[k], path[Len(path)])

\* "md", "json", "yaml", "yml"
ExtMd == <<"m","d">>

ExtJson == <<"j","s","o","n">>

ExtYaml == <<"y","a","m","l">>

ExtYml == <<"y","m","l">>

matches_file_pattern(path) == Extension(path) \in {ExtMd, ExtJson, ExtYaml, ExtYml}

\* ContentFormat of a path, "none" for an unsupported extension
content_format_for(path) ==
  LET FormatOfExtension(e) ==
        CASE e = ExtMd -> "Markdown"
          [] e = ExtJson -> "Json"
          [] e \in {ExtYaml, ExtYml} -> "Yaml"
          [] OTHER -> "none"
  IN FormatOfExtension(Extension(path))

\* a set of paths as a sequence, ascending
RECURSIVE Ascending(_)
Ascending(S) ==
  LET LeastFirst(m) == <<m>> \o Ascending(S \ {m})
  IN IF S = {} THEN <<>>
     ELSE LeastFirst(CHOOSE x \in S : \A y \in S : x = y \/ PathLess(x, y))

Reverse(s) == [i \in 1..Len(s) |-> s[Len(s) + 1 - i]]

\* WalkDir::new(root).filter_entry(is_not_skip_dir): the entries under root,
\* root included, none of them inside a directory named in SKIP_DIRS; the
\* entry paths keep the spelling of root.  The order in which a directory is
\* read is the operating system's: `reversed` picks one of two orders.
WalkDir(fs, root, reversed) ==
  LET \* a directory named in SKIP_DIRS lies on the way from the root down to
      \* loc, the root and loc included
      Pruned(base, loc) ==
        \/ root # <<>> /\ root[Len(root)] \in SKIP_DIRS
        \/ \E n \in (Len(base) + 1)..Len(loc) :
             fs[Sub(loc, 1, n)].kind = "dir" /\ loc[n] \in SKIP_DIRS
      \* the entries at or under the location base, spelled from root
      Entries(base) ==
        {root \o Sub(loc, Len(base) + 1, Len(loc)) :
           loc \in {l \in DOMAIN fs :
                      /\ Len(l) >= Len(base) /\ Sub(l, 1, Len(base)) = base
                      /\ ~Pruned(base, l)}}
  IN IF reversed THEN Reverse(Ascending(Entries(Location(root))))
     ELSE Ascending(Entries(Location(root)))

\* the files one provided path contributes
FilesOfPath(fs, path, exclude, reversed) ==
  IF IsFile(fs, path)
  THEN IF matches_file_pattern(path) /\ ~matches_exclude(path, exclude)
       THEN <<path>> ELSE <<>>
  ELSE IF IsDir(fs, path)
  THEN SelectSeq(WalkDir(fs, path, reversed),
                 LAMBDA f : /\ IsFile(fs, f)
                            /\ matches_file_pattern(f)
                            /\ ~matches_exclude(f, exclude))
  ELSE <<>>

\* Vec::sort
RECURSIVE InsertSorted(_, _)
InsertSorted(sorted, x) ==
  IF sorted = <<>> THEN <<x>>
  ELSE IF PathLess(x, Head(sorted)) THEN <<x>> \o sorted
  ELSE <<Head(sorted)>> \o InsertSorted(Tail(sorted), x)

RECURSIVE SortPaths(_)
SortPaths(s) ==
  IF s = <<>> THEN <<>> ELSE InsertSorted(SortPaths(Sub(s, 1, Len(s) - 1)), s[Len(s)])

\* Vec::dedup: consecutive equal elements collapse into the first
RECURSIVE Dedup(_)
Dedup(s) ==
  IF Len(s) <= 1 THEN s
  ELSE IF s[1] = s[2] THEN Dedup(Tail(s))
  ELSE <<s[1]>> \o Dedup(Tail(s))

\* a variant without files.sort()
FindFilesUnsorted(fs, config, reversed) ==
  Dedup(Flatten([k \in 1..Len(config.paths) |->
                   FilesOfPath(fs, config.paths[k], config.exclude, reversed)]))

\* a variant that takes a file listed by name whatever its extension
FindFilesListedAsIs(fs, config, reversed) ==
  Dedup(SortPaths(Flatten([k \in 1..Len(config.paths) |->
                             IF IsFile(fs, config.paths[k])
                             THEN <<config.paths[k]>>
                             ELSE FilesOfPath(fs, config.paths[k], config.exclude,
                                              reversed)])))

find_files(fs, config, reversed) ==
  Dedup(SortPaths(Flatten([k \in 1..Len(config.paths) |->
                             FilesOfPath(fs, config.paths[k], config.exclude,
                                         reversed)])))

\* None, or Some(ValidationItem {content})
NoItem == [some |-> FALSE]

SomeItem(content) == [some |-> TRUE, content |-> content]

\* too large, an unsupported format or not readable as UTF-8: None
ReadNode(node, path, max_file_size) ==
  IF ByteLen(node.content) > max_file_size THEN NoItem
  ELSE IF content_format_for(path) = "none" THEN NoItem
  ELSE IF ~node.utf8 THEN NoItem
  ELSE SomeItem(node.content)

\* a variant that ignores max_file_size
ReadIgnoringSize(fs, path, max_file_size) ==
  ReadNode(fs[Location(path)], path, ByteLen(fs[Location(path)].content))

\* a variant with the comparison of the size turned around
ReadSizeInverted(fs, path, max_file_size) ==
  IF ByteLen(fs[Location(path)].content) <= max_file_size THEN NoItem
  ELSE ReadNode(fs[Location(path)], path, ByteLen(fs[Location(path)].content))

\* a variant that reads a file that is not UTF-8 all the same
ReadLossy(fs, path, max_file_size) ==
  IF ByteLen(fs[Location(path)].content) > max_file_size THEN NoItem
  ELSE IF content_format_for(path) = "none" THEN NoItem
  ELSE SomeItem(fs[Location(path)].content)

\* a variant whose ceiling is exclusive: a file of exactly max_file_size
\* bytes is skipped
ReadSizeExclusive(fs, path, max_file_size) ==
  IF ByteLen(fs[Location(path)].content) >= max_file_size THEN NoItem
  ELSE ReadNode(fs[Location(path)], path, max_file_size)

read_validation_item(fs, path, max_file_size) ==
  ReadNode(fs[Location(path)], path, max_file_size)

(***************************************************************************)
(* The orchestrator validate_fs (lib.rs)                                   *)
(***************************************************************************)
\* the dispatch on the content format: the errors of one file
ScanAs(fmt, content, file_path, config) ==
  CASE fmt = "Markdown" ->
         scan_markdown_content(content, file_path, config.vendor,
                               config.strict, config.skip_tokens)
    [] fmt = "Json" ->
         scan_json_content(content, file_path, config.vendor, config.scan_keys)
    [] fmt = "Yaml" ->
         scan_yaml_content(content, file_path, config.vendor, config.scan_keys)

\* variants that drop one setting of the configuration on the way to the scanner
ScanItemLax(content, file_path, config) ==
  ScanAs(content_format_for(file_path), content, file_path,
         [config EXCEPT !.strict = FALSE])

ScanItemNoSkip(content, file_path, config) ==
  ScanAs(content_format_for(file_path), content, file_path,
         [config EXCEPT !.skip_tokens = <<>>])

ScanItemNoKeys(content, file_path, config) ==
  ScanAs(content_format_for(file_path), content, file_path,
         [config EXCEPT !.scan_keys = FALSE])

\* a variant that takes every file for Markdown
ScanItemAsMarkdown(content, file_path, config) ==
  ScanAs("Markdown", content, file_path, config)

\* a variant that hands no expected vendor to the scanner
ScanItemAnyVendor(content, file_path, config) ==
  ScanAs(content_format_for(file_path), content, file_path,
         [config EXCEPT !.vendor = NoVendor])

\* a variant that leaves malformed identifiers unreported outside strict
\* mode in every format
ScanItemLaxData(content, file_path, config) ==
  IF config.strict
  THEN ScanAs(content_format_for(file_path), content, file_path, config)
  ELSE SelectSeq(ScanAs(content_format_for(file_path), content, file_path, config),
                 LAMBDA e : e.kind # "Malformed")

\* a variant in which a skip token anywhere on a line of Markdown protects
\* the whole line
ScanItemWholeLine(content, file_path, config) ==
  LET HasToken(line) ==
        \E k \in 1..Len(config.skip_tokens) :
          Contains(ToLower(line), ToLower(config.skip_tokens[k]))
      Blanked(lines) ==
        [n \in 1..Len(lines) |-> IF HasToken(lines[n]) THEN <<>> ELSE lines[n]]
  IN IF content_format_for(file_path) = "Markdown"
     THEN scan_markdown_content(Flatten([n \in 1..Len(Lines(content)) |->
                                           Blanked(Lines(content))[n] \o <<"\n">>]),
                                file_path, config.vendor, config.strict, <<>>)
     ELSE ScanAs(content_format_for(file_path), content, file_path, config)

ScanItem(content, file_path, config) ==
  ScanAs(content_format_for(file_path), content, file_path, config)

\* a variant whose ok is not derived from the errors
BuildReportPassing(scanned, errs) ==
  [files_scanned |-> scanned,
   errors_count |-> Len(errs),
   ok |-> TRUE,
   errors |-> errs]

\* ValidationReport
BuildReport(scanned, errs) ==
  [files_scanned |-> scanned,
   errors_count |-> Len(errs),
   ok |-> errs = <<>>,
   errors |-> errs]

EmptyReport == [files_scanned |-> 0, errors_count |-> 0, ok |-> TRUE, errors |-> <<>>]

NoResult == [tag |-> "none"]

ErrResult(why) == [tag |-> "err", why |-> why]

OkResult(report) == [tag |-> "ok", report |-> report]

VARIABLES
  disk,               \* the file system
  fs_config,          \* FsSourceConfig: paths, exclude, max_file_size
  validation_config,  \* ValidationConfig: vendor, scan_keys, strict, skip_tokens
  pc,                 \* where validate_fs is: "start", "scan", "done"
  files,              \* the list find_files returned
  idx,                \* the position of the loop in files
  errors,             \* the errors collected so far
  files_scanned,      \* the counter of scanned files
  visited,            \* history: the files handed to a scanner, in order
  result,             \* what validate_fs returned
  previous,           \* the caller: what an earlier call returned, and its paths
  cli,                \* main: the parsed command line
  stdout,             \* main: what was written to the standard output
  exit_code,          \* main: the exit status of the process
  slots,              \* workers: what each has returned for its file
  declared,           \* the error types declared with #[gts_error], in order
  instance,           \* a value of an error type and the metadata collected of it
  split               \* a call of split_yaml_documents: its input and what it returned

vars == <<disk, fs_config, validation_config, pc, files, idx, errors,
          files_scanned, visited, result, previous, cli, stdout, exit_code,
          slots, declared,
                 instance, split>>

inputs == <<disk, fs_config, validation_config>>

\* the state of the caller of validate_fs
caller == <<previous, cli, stdout, exit_code, slots, declared, instance, split>>

\* no earlier call
NoPrevious == [some |-> FALSE]

\* no call of split_yaml_documents
NoSplit == [some |-> FALSE]

\* no value of an error type
NoInstance == [some |-> FALSE]

\* no command line: validate_fs is called as a library
NoCli == [some |-> FALSE]

\* the locals of validate_fs on entry
Entered ==
  /\ files = <<>>
  /\ idx = 1
  /\ errors = <<>>
  /\ files_scanned = 0
  /\ visited = <<>>
  /\ result = NoResult

\* the state in which validate_fs is called as a library
Called ==
  /\ pc = "start"
  /\ Entered
  /\ previous = NoPrevious
  /\ cli = NoCli
  /\ stdout = <<>>
  /\ exit_code = "none"
  /\ slots = <<>>
  /\ declared = <<>>
  /\ instance = NoInstance
  /\ split = NoSplit

\* fs_config.paths is empty: bail
ValidateFsNoPaths ==
  /\ pc = "start"
  /\ fs_config.paths = <<>>
  /\ result' = ErrResult("No paths provided for validation")
  /\ pc' = "done"
  /\ UNCHANGED <<inputs, caller, files, idx, errors, files_scanned, visited>>

\* a provided path does not exist: bail
ValidateFsMissingPath ==
  /\ pc = "start"
  /\ fs_config.paths # <<>>
  /\ \E k \in 1..Len(fs_config.paths) : ~Exists(disk, fs_config.paths[k])
  /\ result' = ErrResult("Path does not exist")
  /\ pc' = "done"
  /\ UNCHANGED <<inputs, caller, files, idx, errors, files_scanned, visited>>

\* a variant that looks at the first path only
PathsAcceptedFirst ==
  /\ fs_config.paths # <<>>
  /\ Exists(disk, fs_config.paths[1])

PathsAccepted ==
  /\ fs_config.paths # <<>>
  /\ \A k \in 1..Len(fs_config.paths) : Exists(disk, fs_config.paths[k])

\* find_files returns nothing: the empty report
ValidateFsNoFiles ==
  /\ pc = "start"
  /\ PathsAccepted
  /\ \E reversed \in BOOLEAN :
       /\ find_files(disk, fs_config, reversed) = <<>>
       /\ files' = <<>>
  /\ result' = OkResult(EmptyReport)
  /\ pc' = "done"
  /\ UNCHANGED <<inputs, caller, idx, errors, files_scanned, visited>>

\* find_files returns the files to scan: enter the loop
ValidateFsDiscover ==
  /\ pc = "start"
  /\ PathsAccepted
  /\ \E reversed \in BOOLEAN :
       /\ find_files(disk, fs_config, reversed) # <<>>
       /\ files' = find_files(disk, fs_config, reversed)
  /\ pc' = "scan"
  /\ UNCHANGED <<inputs, caller, idx, errors, files_scanned, visited, result>>

\* a variant that keeps the errors of the last file only
ExtendReplacing(errs, file_errors) == file_errors

\* errors.extend(file_errors)
Extended(errs, file_errors) == errs \o file_errors

\* one turn of the loop over the files
ScanNextFile ==
  /\ pc = "scan"
  /\ idx <= Len(files)
  /\ LET file_path == files[idx]
         item == read_validation_item(disk, file_path, fs_config.max_file_size)
     IN IF ~item.some \/ content_format_for(file_path) = "none"
        THEN UNCHANGED <<errors, files_scanned, visited>>      \* continue
        ELSE /\ files_scanned' = files_scanned + 1
             /\ errors' = Extended(errors, ScanItem(item.content, file_path,
                                                     validation_config))
             /\ visited' = Append(visited, file_path)
  /\ idx' = idx + 1
  /\ UNCHANGED <<inputs, caller, pc, files, result>>

\* after the loop: the report
ValidateFsFinish ==
  /\ pc = "scan"
  /\ idx > Len(files)
  /\ result' = OkResult(BuildReport(files_scanned, errors))
  /\ pc' = "done"
  /\ UNCHANGED <<inputs, caller, files, idx, errors, files_scanned, visited>>

\* the caller keeps what the call returned and calls validate_fs again on the
\* same files with the same configuration, the paths listed in any order
CallAgain ==
  /\ pc = "done"
  /\ ~previous.some
  /\ previous' = [some |-> TRUE, result |-> result, paths |-> fs_config.paths]
  /\ \E order \in Permutations(1..Len(fs_config.paths)) :
       fs_config' = [fs_config EXCEPT
                       !.paths = [i \in 1..Len(fs_config.paths) |->
                                    fs_config.paths[order[i]]]]
  /\ pc' = "start"
  /\ files' = <<>>
  /\ idx' = 1
  /\ errors' = <<>>
  /\ files_scanned' = 0
  /\ visited' = <<>>
  /\ result' = NoResult
  /\ UNCHANGED <<disk, validation_config, cli, stdout, exit_code, slots,
                 declared,
                 instance, split>>

(***************************************************************************)
(* Inputs: the texts of the examples                                       *)
(***************************************************************************)
\* "gts.y.core.pkg.mytype.v1~"
IdOfVendorY == <<"g","t","s",".","y",".","c","o","r","e",".","p","k","g",".","m","y","t","y","p","e",".","v","1","~">>

\* "gts.x.core.pkg.mytype.v1~"
IdOfVendorX == <<"g","t","s",".","x",".","c","o","r","e",".","p","k","g",".","m","y","t","y","p","e",".","v","1","~">>

\* "gts.my-vendor.core.events.type.v1~"
IdWithHyphen == <<"g","t","s",".","m","y","-","v","e","n","d","o","r",".","c","o","r","e",".","e","v","e","n","t","s",".","t","y","p","e",".","v","1","~">>

\* "gts.y.core.pkg.badtype.v1~"
KeyOfVendorY == <<"g","t","s",".","y",".","c","o","r","e",".","p","k","g",".","b","a","d","t","y","p","e",".","v","1","~">>

\* "**given**"
GivenToken == <<"*","*","g","i","v","e","n","*","*">>

\* "x"
VendorX == <<"x">>

\* "$id: gts.y.core.pkg.mytype.v1~"
YamlIdY == <<"$","i","d",":"," ","g","t","s",".","y",".","c","o","r","e",".","p","k","g",".","m","y","t","y","p","e",".","v","1","~">>

\* "invalid: yaml: syntax:"
YamlBroken == <<"i","n","v","a","l","i","d",":"," ","y","a","m","l",":"," ","s","y","n","t","a","x",":">>

\* every line followed by a line feed
Text(lines) == Flatten([i \in 1..Len(lines) |-> lines[i] \o <<"\n">>])

\* the stream of three documents, the middle one malformed
YamlStreamExample == Text(<<YamlIdY, Separator, YamlBroken, Separator, YamlIdY>>)

\* "**given** gts.y.core.pkg.mytype.v1~ is registered"
MdGivenLine == <<"*","*","g","i","v","e","n","*","*"," ","g","t","s",".","y",".","c","o","r","e",".","p","k","g",".","m","y","t","y","p","e",".","v","1","~"," ","i","s"," ","r","e","g","i","s","t","e","r","e","d">>

\* "Malformed token: gts.my-vendor.core.events.type.v1~"
MdHyphenLine == <<"M","a","l","f","o","r","m","e","d"," ","t","o","k","e","n",":"," ","g","t","s",".","m","y","-","v","e","n","d","o","r",".","c","o","r","e",".","e","v","e","n","t","s",".","t","y","p","e",".","v","1","~">>

\* {"gts.y.core.pkg.badtype.v1~": "value"}
JsonKeyExample == <<"{","\"","g","t","s",".","y",".","c","o","r","e",".","p","k","g",".","b","a","d","t","y","p","e",".","v","1","~","\"",":"," ","\"","v","a","l","u","e","\"","}">>

\* {"$id": "gts.y.core.pkg.mytype.v1~"
JsonTruncated == <<"{","\"","$","i","d","\"",":"," ","\"","g","t","s",".","y",".","c","o","r","e",".","p","k","g",".","m","y","t","y","p","e",".","v","1","~","\"">>

(***************************************************************************)
(* Inputs: a directory tree with one file of every kind                    *)
(***************************************************************************)
PathD == <<<<"d">>>>

PathDotD == <<CurDir>> \o PathD

PathSub == <<<<"d">>, <<"s","u","b">>>>

PathStream == <<<<"d">>, <<"m",".","y","a","m","l">>>>

PathMissing == <<<<"n","o","p","e">>>>

PathText1 == <<<<"d">>, <<"n",".","t","x","t">>>>

PathTop == <<<<"z",".","m","d">>>>

Tree ==
  (PathD :> DirNode)
  @@ (<<<<"d">>, <<"a",".","m","d">>>> :> FileNode(TRUE, Text(<<MdHyphenLine, <<>>, MdGivenLine>>)))
  @@ (<<<<"d">>, <<"k",".","j","s","o","n">>>> :> FileNode(TRUE, JsonKeyExample))
  @@ (PathStream :> FileNode(TRUE, YamlStreamExample))
  @@ (<<<<"d">>, <<"b","a","d",".","j","s","o","n">>>> :> FileNode(TRUE, JsonTruncated))
  @@ (<<<<"d">>, <<"b","a","d",".","y","a","m","l">>>> :> FileNode(TRUE, Text(<<YamlBroken>>)))
  @@ (<<<<"d">>, <<"r","a","w",".","m","d">>>> :> FileNode(FALSE, Text(<<MdGivenLine>>)))
  @@ (PathText1 :> FileNode(TRUE, Text(<<MdGivenLine>>)))
  @@ (<<<<"d">>, <<"t","a","r","g","e","t">>>> :> DirNode)
  @@ (<<<<"d">>, <<"t","a","r","g","e","t">>, <<"t",".","m","d">>>> :> FileNode(TRUE, Text(<<MdGivenLine>>)))
  @@ (PathSub :> DirNode)
  @@ (<<<<"d">>, <<"s","u","b">>, <<"e",".","y","m","l">>>> :> FileNode(TRUE, Text(<<YamlIdY>>)))
  @@ (PathTop :> FileNode(TRUE, Text(<<MdGivenLine, MdGivenLine>>)))

\* the paths a caller may list
ProvidedPaths == {PathD, PathDotD, PathSub, PathStream, PathMissing, PathTop}

\* the longest path list
MaxPaths == 2

\* FsSourceConfig::default().max_file_size
DefaultMaxFileSize == 10485760

\* the default ceiling, the size of the stream example, and one byte below it
MaxFileSizes ==
  {DefaultMaxFileSize, ByteLen(Tree[PathStream].content),
   ByteLen(Tree[PathStream].content) - 1}

\* "*.yml"
ExcludeYml == <<"*",".","y","m","l">>

ValidationConfigs ==
  {[vendor |-> SomeVendor(VendorX), scan_keys |-> FALSE, strict |-> FALSE,
    skip_tokens |-> <<>>],
   [vendor |-> SomeVendor(VendorX), scan_keys |-> TRUE, strict |-> TRUE,
    skip_tokens |-> <<GivenToken>>]}

SeqsUpTo(S, n) == UNION {[1..k -> S] : k \in 0..n}

Init ==
  /\ disk = Tree
  /\ fs_config \in [paths : SeqsUpTo(ProvidedPaths, MaxPaths),
                    exclude : {<<>>, <<ExcludeYml>>},
                    max_file_size : MaxFileSizes,
                    follow_links : {TRUE}]
  /\ validation_config \in ValidationConfigs
  /\ Called

Next ==
  \/ ValidateFsNoPaths
  \/ ValidateFsMissingPath
  \/ ValidateFsNoFiles
  \/ ValidateFsDiscover
  \/ ScanNextFile
  \/ ValidateFsFinish

Spec == Init /\ [][Next]_vars

(***************************************************************************)
(* Two calls of validate_fs, one after the other, over the same directory  *)
(* tree with the same configuration                                        *)
(***************************************************************************)
InitTwice ==
  /\ disk = Tree
  /\ fs_config \in [paths : SeqsUpTo(ProvidedPaths, MaxPaths),
                    exclude : {<<>>, <<ExcludeYml>>},
                    max_file_size : {DefaultMaxFileSize},
                    follow_links : {TRUE}]
  /\ validation_config \in ValidationConfigs
  /\ Called

NextTwice ==
  \/ Next
  \/ CallAgain

SpecTwice == InitTwice /\ [][NextTwice]_vars

(***************************************************************************)
(* One YAML file, its text drawn from streams of a few documents           *)
(***************************************************************************)
\* "gts.y.core.pkg.badtype.v1~: value"
YamlKeyY == <<"g","t","s",".","y",".","c","o","r","e",".","p","k","g",".","b","a","d","t","y","p","e",".","v","1","~",":"," ","v","a","l","u","e">>

\* "$id: gts.x.core.pkg.mytype.v1~"
YamlIdX == <<"$","i","d",":"," ","g","t","s",".","x",".","c","o","r","e",".","p","k","g",".","m","y","t","y","p","e",".","v","1","~">>

\* "ref: gts.invalid"
YamlRefInvalid == <<"r","e","f",":"," ","g","t","s",".","i","n","v","a","l","i","d">>

\* " --- ": a separator line with blanks around it
PaddedSeparator == <<" ">> \o Separator \o <<" ">>

\* the documents a stream is made of, as lines
YamlDocs ==
  {<<YamlIdY>>, <<YamlBroken>>, <<<<>>>>, <<YamlKeyY>>, <<YamlIdX, YamlRefInvalid>>}

YamlSeparators == {Separator, PaddedSeparator}

\* the longest stream, in documents
MaxDocs == 3

\* the stream of the documents docs with the separators seps between them
YamlStream(docs, seps) ==
  Text(Flatten([i \in 1..Len(docs) |->
                  IF i = 1 THEN docs[1] ELSE <<seps[i - 1]>> \o docs[i]]))

YamlTexts ==
  {YamlStream(docs, seps) :
     docs \in UNION {[1..n -> YamlDocs] : n \in 1..MaxDocs},
     seps \in [1..(MaxDocs - 1) -> YamlSeparators]}

PathYamlFile == <<<<"s",".","y","a","m","l">>>>

\* a disk that holds one file
OneFile(path, content) == (path :> FileNode(TRUE, content))

\* the configuration that scans one file
OnlyPath(path) ==
  [paths |-> <<path>>, exclude |-> <<>>, max_file_size |-> DefaultMaxFileSize,
   follow_links |-> TRUE]

InitYaml ==
  /\ \E text \in YamlTexts : disk = OneFile(PathYamlFile, text)
  /\ fs_config = OnlyPath(PathYamlFile)
  /\ validation_config \in
       {[vendor |-> NoVendor, scan_keys |-> FALSE, strict |-> FALSE, skip_tokens |-> <<>>],
        [vendor |-> SomeVendor(VendorX), scan_keys |-> FALSE, strict |-> FALSE,
         skip_tokens |-> <<>>],
        [vendor |-> SomeVendor(VendorX), scan_keys |-> TRUE, strict |-> FALSE,
         skip_tokens |-> <<>>]}
  /\ Called

\* a run over paths that exist
NextScan ==
  \/ ValidateFsDiscover
  \/ ScanNextFile
  \/ ValidateFsFinish

SpecYaml == InitYaml /\ [][NextScan]_vars

(***************************************************************************)
(* One Markdown file, its text drawn from a few fragments                  *)
(***************************************************************************)
\* "**given** "
GivenLower == GivenToken \o <<" ">>

\* "**GIVEN** "
GivenUpper == <<"*","*","G","I","V","E","N","*","*"," ">>

\* " is registered"
Filler == <<" ","i","s"," ","r","e","g","i","s","t","e","r","e","d">>

LineFeed == <<"\n">>

MdFragments ==
  {GivenLower, GivenUpper, IdOfVendorY, IdOfVendorX, IdWithHyphen, Filler, LineFeed}

\* the longest text, in fragments
MaxFrags == 3

MdTexts == {Flatten(fr) : fr \in SeqsUpTo(MdFragments, MaxFrags)}

PathMdFile == <<<<"s",".","m","d">>>>

MdConfigs ==
  [vendor : {NoVendor, SomeVendor(VendorX)},
   scan_keys : {FALSE},
   strict : BOOLEAN,
   skip_tokens : {<<>>, <<GivenToken>>}]

InitMd ==
  /\ \E text \in MdTexts : disk = OneFile(PathMdFile, text)
  /\ fs_config = OnlyPath(PathMdFile)
  /\ validation_config \in MdConfigs
  /\ Called

SpecMd == InitMd /\ [][NextScan]_vars

(***************************************************************************)
(* One data file, JSON or YAML, rendered from an object of a few members   *)
(***************************************************************************)
\* "$id"
KeyId == <<"$","i","d">>

\* "name"
KeyName == <<"n","a","m","e">>

\* "value"
PlainValue == <<"v","a","l","u","e">>

DataKeys == {KeyOfVendorY, KeyId, KeyName}

DataValues ==
  {VStr(PlainValue), VStr(IdOfVendorY),
   VObj(<<[k |-> KeyOfVendorY, v |-> VStr(PlainValue)]>>)}

\* the most members of the outer object
MaxMembers == 2

DataObjects == SeqsUpTo([k : DataKeys, v : DataValues], MaxMembers)

\* "k": v, "k": v
RECURSIVE RenderJsonMembers(_)

RenderJson(value) ==
  IF value.t = "str" THEN <<"\"">> \o value.s \o <<"\"">>
  ELSE <<"{">> \o RenderJsonMembers(value.m) \o <<"}">>

RenderJsonMembers(entries) ==
  IF entries = <<>> THEN <<>>
  ELSE <<"\"">> \o Head(entries).k \o <<"\"", ":", " ">> \o RenderJson(Head(entries).v)
         \o (IF Len(entries) = 1 THEN <<>> ELSE <<",", " ">>)
         \o RenderJsonMembers(Tail(entries))

\* one line for each member, the members of a nested object indented
RECURSIVE RenderYamlMembers(_, _)
RenderYamlMembers(entries, indent) ==
  IF entries = <<>> THEN <<>>
  ELSE indent \o Head(entries).k \o <<":">>
         \o (IF Head(entries).v.t = "str"
             THEN <<" ">> \o Head(entries).v.s \o LineFeed
             ELSE LineFeed \o RenderYamlMembers(Head(entries).v.m, indent \o <<" ", " ">>))
         \o RenderYamlMembers(Tail(entries), indent)

PathJsonFile == <<<<"s",".","j","s","o","n">>>>

PathYamlData == <<<<"d",".","y","a","m","l">>>>

DataFiles ==
  {OneFile(PathJsonFile, RenderJson(VObj(m))) : m \in DataObjects}
    \cup {OneFile(PathYamlData, RenderYamlMembers(m, <<>>)) : m \in DataObjects \ {<<>>}}

DataConfigs ==
  [vendor : {NoVendor, SomeVendor(VendorX)},
   scan_keys : BOOLEAN,
   strict : {FALSE},
   skip_tokens : {<<>>}]

InitData ==
  /\ disk \in DataFiles
  /\ \E p \in DOMAIN disk : fs_config = OnlyPath(p)
  /\ validation_config \in DataConfigs
  /\ Called

SpecData == InitData /\ [][NextScan]_vars

(***************************************************************************)
(* One data file, JSON or YAML, that holds one string under a key at some  *)
(* depth of objects and arrays                                             *)
(***************************************************************************)
\* "x-gts-ref"
KeyXGtsRef == <<"x","-","g","t","s","-","r","e","f">>

\* "properties"
KeyProperties == <<"p","r","o","p","e","r","t","i","e","s">>

\* "items"
KeyItems == <<"i","t","e","m","s">>

\* "*"
BareWildcard == <<"*">>

\* "gts.x.core.*"
PatternOfVendorX == <<"g","t","s",".","x",".","c","o","r","e",".","*">>

\* "gts.y.core.*"
PatternOfVendorY == <<"g","t","s",".","y",".","c","o","r","e",".","*">>

RefKeys == {KeyXGtsRef, KeyId}

RefValues == {BareWildcard, PatternOfVendorX, PatternOfVendorY, IdOfVendorY}

\* the deepest nesting of the string
MaxDepth == 2

\* an object with one member
Single(key, value) == VObj(<<[k |-> key, v |-> value]>>)

\* the string under its key, inside up to n objects or arrays of objects
RECURSIVE RefTrees(_)
RefTrees(n) ==
  IF n = 0 THEN {Single(key, VStr(s)) : key \in RefKeys, s \in RefValues}
  ELSE RefTrees(n - 1)
         \cup {Single(KeyProperties, t) : t \in RefTrees(n - 1)}
         \cup {Single(KeyItems, VArr(<<t>>)) : t \in RefTrees(n - 1)}

\* the tree as JSON text: objects, arrays and strings
RECURSIVE RenderJsonTree(_)
RenderJsonTree(value) ==
  CASE value.t = "str" -> <<"\"">> \o value.s \o <<"\"">>
    [] value.t = "arr" ->
         <<"[">> \o RenderJsonTree(value.a[1]) \o <<"]">>
    [] OTHER ->
         <<"{", "\"">> \o value.m[1].k \o <<"\"", ":", " ">>
           \o RenderJsonTree(value.m[1].v) \o <<"}">>

\* the tree as the lines of a YAML block: a string that begins with "*" is
\* quoted, the object inside an array is a sequence item
RECURSIVE RenderYamlLines(_, _)
RenderYamlLines(value, indent) ==
  LET Scalar(s) == IF Head(s) = "*" THEN <<"\"">> \o s \o <<"\"">> ELSE s
      AsItem(lines) == [lines EXCEPT ![1][Len(indent) + 3] = "-"]
      Member(e) ==
        CASE e.v.t = "str" -> <<indent \o e.k \o <<":", " ">> \o Scalar(e.v.s)>>
          [] e.v.t = "obj" ->
               <<indent \o e.k \o <<":">>>>
                 \o RenderYamlLines(e.v, indent \o <<" ", " ">>)
          [] OTHER ->
               <<indent \o e.k \o <<":">>>>
                 \o AsItem(RenderYamlLines(e.v.a[1], indent \o <<" ", " ", " ", " ">>))
  IN Member(value.m[1])

PathRefJson == <<<<"r",".","j","s","o","n">>>>

PathRefYaml == <<<<"r",".","y","a","m","l">>>>

RefFiles ==
  {OneFile(PathRefJson, RenderJsonTree(t)) : t \in RefTrees(MaxDepth)}
    \cup {OneFile(PathRefYaml, Text(RenderYamlLines(t, <<>>))) : t \in RefTrees(MaxDepth)}

RefConfigs ==
  [vendor : {NoVendor, SomeVendor(VendorX)},
   scan_keys : BOOLEAN,
   strict : BOOLEAN,
   skip_tokens : {<<>>}]

InitRef ==
  /\ disk \in RefFiles
  /\ \E p \in DOMAIN disk : fs_config = OnlyPath(p)
  /\ validation_config \in RefConfigs
  /\ Called

SpecRef == InitRef /\ [][NextScan]_vars

(***************************************************************************)
(* One file, Markdown, JSON or YAML, that holds one identifier: a chain of *)
(* a few segments, each of some vendor                                     *)
(***************************************************************************)
\* "y"
VendorY == <<"y">>

\* "acme"
VendorAcme == <<"a","c","m","e">>

ChainVendorChoices == {VendorX, VendorY, VendorAcme}

\* the longest chain, in segments
MaxSegments == 2

\* the vendors of the segments of a chain, first to last
VendorChains == UNION {[1..n -> ChainVendorChoices] : n \in 1..MaxSegments}

\* "<vendor>.core.pkg.mytype.v1~"
SegmentOf(vendor) == vendor \o Sub(IdOfVendorX, Len(GtsPrefix) + Len(VendorX) + 1, Len(IdOfVendorX))

\* "gts." and the segments, nothing between them
ChainText(vendors) ==
  GtsPrefix \o Flatten([i \in 1..Len(vendors) |-> SegmentOf(vendors[i])])

\* "# Title", "", "Uses <chain> schema."
MdUsing(chain) ==
  Text(<<<<"#"," ","T","i","t","l","e">>, <<>>,
         <<"U","s","e","s"," ">> \o chain \o <<" ","s","c","h","e","m","a",".">>>>)

\* "$id: <chain>"
YamlId(chain) == Text(<<KeyId \o <<":", " ">> \o chain>>)

\* the chain as it is, and in the external form that begins with gts://
ChainForms(vendors) == {ChainText(vendors), GtsUriPrefix \o ChainText(vendors)}

\* the file of a chain in the format of the path
ChainFile(path, chain) ==
  CASE content_format_for(path) = "Markdown" -> OneFile(path, MdUsing(chain))
    [] content_format_for(path) = "Json" ->
         OneFile(path, RenderJsonTree(Single(KeyId, VStr(chain))))
    [] OTHER -> OneFile(path, YamlId(chain))

ChainConfigs ==
  [vendor : {NoVendor, SomeVendor(VendorX)},
   scan_keys : {FALSE},
   strict : BOOLEAN,
   skip_tokens : {<<>>}]

InitChain ==
  /\ \E path \in {PathMdFile, PathJsonFile, PathYamlFile}, vendors \in VendorChains :
       /\ \E chain \in ChainForms(vendors) : disk = ChainFile(path, chain)
       /\ fs_config = OnlyPath(path)
  /\ validation_config \in ChainConfigs
  /\ Called

SpecChain == InitChain /\ [][NextScan]_vars

(***************************************************************************)
(* Report output (output.rs).  The fields of one error and its             *)
(* one-line form are those of error.rs, not among the sources: they follow *)
(* the report shape of the specification, section 6.                       *)
(***************************************************************************)
\* the message of an error of each kind
KindText(kind) ==
  CASE kind = "VendorMismatch" -> <<"V","e","n","d","o","r"," ","m","i","s","m","a","t","c","h">>
    [] kind = "Wildcard" -> <<"W","i","l","d","c","a","r","d">>
    [] OTHER -> <<"I","n","v","a","l","i","d"," ","G","T","S"," ","i","d","e","n","t","i","f","i","e","r">>

ErrorMessage(e) == KindText(e.kind) \o <<":", " ">> \o e.raw

\* ValidationError::format_human_readable
FormatHumanReadable(e) ==
  PathText(e.file) \o <<":">> \o e.at \o <<":", " ">> \o ErrorMessage(e)

\* c.repeat(n)
Repeat(c, n) == [i \in 1..n |-> c]

\* the width of the rules of the human-readable report
RuleWidth == 80

\* the lines with `pad` in front of each
Indented(lines, pad) == [i \in 1..Len(lines) |-> pad \o lines[i]]

\* all lines but the last followed by a comma
CommaSeparated(lines) ==
  [i \in 1..Len(lines) |-> IF i < Len(lines) THEN lines[i] \o <<",">> ELSE lines[i]]

\* "name": value
JsonField(name, value) == <<"\"">> \o name \o <<"\"", ":", " ">> \o value

JsonString(s) == <<"\"">> \o s \o <<"\"">>

\* serde_json::to_string_pretty of one error: an object, a member on each line
PrettyError(e) ==
  <<<<"{">>>>
    \o Indented(CommaSeparated(<<JsonField(<<"p","a","t","h">>, JsonString(PathText(e.file))),
                                 JsonField(<<"l","o","c","a","t","i","o","n">>, JsonString(e.at)),
                                 JsonField(<<"k","i","n","d">>, JsonString(KindText(e.kind))),
                                 JsonField(<<"m","e","s","s","a","g","e">>, JsonString(ErrorMessage(e)))>>),
                <<" ", " ">>)
    \o <<<<"}">>>>

\* the lines of the array of errors: "[]" when there is none
PrettyErrors(errs) ==
  LET Closed(items) ==
        IF items = <<>> THEN items
        ELSE [i \in 1..Len(items) |->
                IF i < Len(items) /\ items[i] = <<"}">> THEN <<"}", ",">> ELSE items[i]]
  IN IF errs = <<>> THEN <<<<"[", "]">>>>
     ELSE <<<<"[">>>>
            \o Indented(Closed(Flatten([i \in 1..Len(errs) |-> PrettyError(errs[i])])),
                        <<" ", " ">>)
            \o <<<<"]">>>>

\* serde_json::to_string_pretty(report): the fields of ValidationReport in
\* the order of their declaration, under their own names
PrettyReport(report) ==
  LET Field(name, lines) ==
        <<JsonField(name, lines[1])>> \o Sub(lines, 2, Len(lines))
      Members(fields) ==
        Flatten([i \in 1..Len(fields) |->
                   IF i < Len(fields)
                   THEN [fields[i] EXCEPT ![Len(fields[i])] = @ \o <<",">>]
                   ELSE fields[i]])
  IN <<<<"{">>>>
       \o Indented(Members(<<Field(<<"f","i","l","e","s","_","s","c","a","n","n","e","d">>, <<Decimal(report.files_scanned)>>),
                             Field(<<"e","r","r","o","r","s","_","c","o","u","n","t">>, <<Decimal(report.errors_count)>>),
                             Field(<<"o","k">>, <<IF report.ok THEN <<"t","r","u","e">> ELSE <<"f","a","l","s","e">>>>),
                             Field(<<"e","r","r","o","r","s">>, PrettyErrors(report.errors))>>),
                   <<" ", " ">>)
       \o <<<<"}">>>>

\* write_json: the pretty JSON and a line feed
write_json(report) == Text(<<JoinLines(PrettyReport(report))>>)

\* some error message contains the text
AnyErrorContains(errs, text) ==
  \E i \in 1..Len(errs) : Contains(ErrorMessage(errs[i]), text)

\* write_human without colour: the lines written, one writeln! each
HumanLines(report) ==
  LET Rule(c) == Repeat(c, RuleWidth)
      ErrorsBlock ==
        IF report.errors = <<>> THEN <<>>
        ELSE <<Rule("-"), <<" "," ","E","R","R","O","R","S">>, Rule("-")>>
               \o [i \in 1..Len(report.errors) |-> FormatHumanReadable(report.errors[i])]
               \o <<<<>>>>
      has_vendor_mismatch == AnyErrorContains(report.errors, <<"V","e","n","d","o","r"," ","m","i","s","m","a","t","c","h">>)
      has_wildcard_error == AnyErrorContains(report.errors, <<"W","i","l","d","c","a","r","d">>)
      has_parse_error ==
        \E i \in 1..Len(report.errors) :
          /\ ~Contains(ErrorMessage(report.errors[i]), <<"V","e","n","d","o","r"," ","m","i","s","m","a","t","c","h">>)
          /\ ~Contains(ErrorMessage(report.errors[i]), <<"W","i","l","d","c","a","r","d">>)
      Verdict ==
        IF report.ok
        THEN <<<<"u2713">> \o <<" ","A","l","l"," ">> \o Decimal(report.files_scanned)
                 \o <<" ","f","i","l","e","s"," ","p","a","s","s","e","d"," ","v","a","l","i","d","a","t","i","o","n">>>>
        ELSE <<<<"u2717", " ">> \o Decimal(report.errors_count)
                 \o <<" ","i","n","v","a","l","i","d"," ","G","T","S"," ","i","d","e","n","t","i","f","i","e","r","s"," ","f","o","u","n","d">>,
               <<>>,
               <<" "," ","T","o"," ","f","i","x",":">>>>
               \o (IF has_parse_error
                   THEN <<<<" "," "," "," ","-"," ","S","c","h","e","m","a"," ","I","D","s"," ","m","u","s","t"," ","e","n","d"," ","w","i","t","h"," ","~"," ","(","e",".","g",".",","," ","g","t","s",".","x",".","c","o","r","e",".","t","y","p","e",".","v","1","~",")">>,
                          <<" "," "," "," ","-"," ","E","a","c","h"," ","s","e","g","m","e","n","t"," ","n","e","e","d","s"," ","5"," ","p","a","r","t","s",":"," ","v","e","n","d","o","r",".","p","a","c","k","a","g","e",".","n","a","m","e","s","p","a","c","e",".","t","y","p","e",".","v","e","r","s","i","o","n">>,
                          <<" "," "," "," ","-"," ","N","o"," ","h","y","p","h","e","n","s"," ","a","l","l","o","w","e","d",","," ","u","s","e"," ","u","n","d","e","r","s","c","o","r","e","s">>>>
                   ELSE <<>>)
               \o (IF has_wildcard_error
                   THEN <<<<" "," "," "," ","-"," ","W","i","l","d","c","a","r","d","s"," ","(","*",")"," ","o","n","l","y"," ","i","n"," ","f","i","l","t","e","r","/","p","a","t","t","e","r","n"," ","c","o","n","t","e","x","t","s">>>>
                   ELSE <<>>)
               \o (IF has_vendor_mismatch
                   THEN <<<<" "," "," "," ","-"," ","E","n","s","u","r","e"," ","a","l","l"," ","G","T","S"," ","I","D","s"," ","u","s","e"," ","t","h","e"," ","e","x","p","e","c","t","e","d"," ","v","e","n","d","o","r">>>>
                   ELSE <<>>)
  IN <<<<>>, Rule("="), <<" "," ","G","T","S"," ","D","O","C","U","M","E","N","T","A","T","I","O","N"," ","V","A","L","I","D","A","T","O","R">>, Rule("="), <<>>,
       <<" "," ","F","i","l","e","s"," ","s","c","a","n","n","e","d",":"," ">> \o Decimal(report.files_scanned),
       <<" "," ","E","r","r","o","r","s"," ","f","o","u","n","d",":"," "," ">> \o Decimal(report.errors_count),
       <<>>>>
       \o ErrorsBlock
       \o <<Rule("=")>>
       \o Verdict
       \o <<Rule("=")>>

write_human(report) == Text(HumanLines(report))
(***************************************************************************)
(* The command line (main.rs)                                              *)
(***************************************************************************)
\* the default directories to scan if no paths are provided
DEFAULT_SCAN_DIRS == <<<<<<"d","o","c","s">>>>, <<<<"m","o","d","u","l","e","s">>>>, <<<<"l","i","b","s">>>>, <<<<"e","x","a","m","p","l","e","s">>>>>>

\* the defaults without the test of their existence
MainPathsUnfiltered(fs, paths) ==
  IF paths = <<>> THEN DEFAULT_SCAN_DIRS ELSE paths

\* the paths main hands to validate_fs: the arguments, or the default
\* directories that exist
MainPaths(fs, paths) ==
  IF paths = <<>>
  THEN SelectSeq(DEFAULT_SCAN_DIRS, LAMBDA path : Exists(fs, path))
  ELSE paths

\* an exit status that ignores the report
ExitAlwaysSuccess(report) == "SUCCESS"

\* the exit status for a report that was written
ExitFor(report) == IF report.ok THEN "SUCCESS" ELSE "FAILURE"

\* what main writes for the report: JSON with --json, or the text without
\* colour
Rendered(args, report) ==
  IF args.json THEN write_json(report) ELSE write_human(report)

\* what clap prints for --help or --version, as one token
UsageText == <<"usage">>

\* Cli::parse on --help or --version: clap prints and exits with success
MainHelp ==
  /\ pc = "main"
  /\ cli.request \in {"help", "version"}
  /\ stdout' = UsageText
  /\ exit_code' = "SUCCESS"
  /\ pc' = "exited"
  /\ UNCHANGED <<inputs, files, idx, errors, files_scanned, visited, result,
                 previous, cli, slots, declared,
                 instance, split>>

\* Cli::parse on arguments it rejects: clap exits with its usage status
MainUsageError ==
  /\ pc = "main"
  /\ cli.request = "invalid"
  /\ exit_code' = "USAGE"
  /\ pc' = "exited"
  /\ UNCHANGED <<inputs, files, idx, errors, files_scanned, visited, result,
                 previous, cli, stdout, slots, declared,
                 instance, split>>

\* no path to scan: failure
MainNoExistingPaths ==
  /\ pc = "main"
  /\ cli.request = "run"
  /\ MainPaths(disk, cli.paths) = <<>>
  /\ exit_code' = "FAILURE"
  /\ pc' = "exited"
  /\ UNCHANGED <<inputs, files, idx, errors, files_scanned, visited, result,
                 previous, cli, stdout, slots, declared,
                 instance, split>>

\* the configurations are filled from the command line and validate_fs is
\* called
MainValidate ==
  /\ pc = "main"
  /\ cli.request = "run"
  /\ MainPaths(disk, cli.paths) # <<>>
  /\ fs_config' = [fs_config EXCEPT !.paths = MainPaths(disk, cli.paths),
                                    !.exclude = cli.exclude,
                                    !.max_file_size = cli.max_file_size]
  /\ validation_config' = [validation_config EXCEPT
                             !.scan_keys = cli.scan_keys,
                             !.strict = cli.strict,
                             !.skip_tokens = cli.skip_tokens,
                             !.vendor = cli.vendor]
  /\ pc' = "start"
  /\ UNCHANGED <<disk, files, idx, errors, files_scanned, visited, result,
                 caller>>

\* validate_fs returned an error: failure, nothing on the standard output
MainFatal ==
  /\ pc = "done"
  /\ cli.some
  /\ result.tag = "err"
  /\ exit_code' = "FAILURE"
  /\ pc' = "exited"
  /\ UNCHANGED <<inputs, files, idx, errors, files_scanned, visited, result,
                 previous, cli, stdout, slots, declared,
                 instance, split>>

\* the report is written and the exit status follows its ok flag
MainWrite ==
  /\ pc = "done"
  /\ cli.some
  /\ result.tag = "ok"
  /\ stdout' = Rendered(cli, result.report)
  /\ exit_code' = ExitFor(result.report)
  /\ pc' = "exited"
  /\ UNCHANGED <<inputs, files, idx, errors, files_scanned, visited, result,
                 previous, cli, slots, declared,
                 instance, split>>

\* the standard output fails part of the way: failure.  The lengths at
\* which it may fail: nothing written, or all but the last line feed
WriteFailsAt(text) == {0, Len(text) - 1}

MainWriteFails ==
  /\ pc = "done"
  /\ cli.some
  /\ result.tag = "ok"
  /\ \E n \in WriteFailsAt(Rendered(cli, result.report)) :
       stdout' = Sub(Rendered(cli, result.report), 1, n)
  /\ exit_code' = "FAILURE"
  /\ pc' = "exited"
  /\ UNCHANGED <<inputs, files, idx, errors, files_scanned, visited, result,
                 previous, cli, slots, declared,
                 instance, split>>

(***************************************************************************)
(* Inputs: a current directory with some of the default directories, and   *)
(* the command lines of the tests                                          *)
(***************************************************************************)
PathDocs == DEFAULT_SCAN_DIRS[1]

PathModules == DEFAULT_SCAN_DIRS[2]

PathExamples == DEFAULT_SCAN_DIRS[4]

\* the default directories a current directory may hold
SomeDefaults == {PathDocs, PathModules, PathExamples}

\* docs/test.md names an identifier of vendor x, modules/m.md one of vendor
\* y, examples is empty; z.md at the top names a malformed identifier
DefaultDirFiles(dir) ==
  CASE dir = PathDocs ->
         (dir :> DirNode)
         @@ (dir \o <<<<"t","e","s","t",".","m","d">>>> :> FileNode(TRUE, MdUsing(IdOfVendorX)))
    [] dir = PathModules ->
         (dir :> DirNode)
         @@ (dir \o <<<<"m",".","m","d">>>> :> FileNode(TRUE, MdUsing(IdOfVendorY)))
    [] OTHER -> (dir :> DirNode)

RECURSIVE DirsOf(_)
DirsOf(present) ==
  IF present = {} THEN (PathTop :> FileNode(TRUE, MdUsing(IdWithHyphen)))
  ELSE LET dir == CHOOSE d \in present : TRUE
       IN DefaultDirFiles(dir) @@ DirsOf(present \ {dir})

\* the paths of a command line
CliPaths == {PathDocs, PathTop, PathMissing}

\* the longest list of PATH arguments
MaxArgs == 2

\* the command lines: parsed by clap, or turned away by it
CommandLines ==
  [some : {TRUE},
   request : {"run"},
   paths : SeqsUpTo(CliPaths, MaxArgs),
   vendor : {NoVendor, SomeVendor(VendorX)},
   exclude : {<<>>},
   json : BOOLEAN,
   verbose : {FALSE},
   max_file_size : {DefaultMaxFileSize},
   scan_keys : {FALSE},
   strict : {FALSE},
   skip_tokens : {<<>>}]
  \cup
  [some : {TRUE},
   request : {"help", "version", "invalid"},
   paths : {<<>>},
   vendor : {NoVendor},
   exclude : {<<>>},
   json : BOOLEAN,
   verbose : {FALSE},
   max_file_size : {DefaultMaxFileSize},
   scan_keys : {FALSE},
   strict : {FALSE},
   skip_tokens : {<<>>}]

\* FsSourceConfig::default() and ValidationConfig::default()
DefaultFsConfig ==
  [paths |-> <<>>, exclude |-> <<>>, max_file_size |-> DefaultMaxFileSize,
   follow_links |-> TRUE]

DefaultValidationConfig ==
  [vendor |-> NoVendor, scan_keys |-> FALSE, strict |-> FALSE, skip_tokens |-> <<>>]

InitCli ==
  /\ disk \in {DirsOf(present) : present \in SUBSET SomeDefaults}
  /\ cli \in CommandLines
  /\ fs_config = DefaultFsConfig
  /\ validation_config = DefaultValidationConfig
  /\ pc = "main"
  /\ Entered
  /\ previous = NoPrevious
  /\ stdout = <<>>
  /\ exit_code = "none"
  /\ slots = <<>>
  /\ declared = <<>>
  /\ instance = NoInstance
  /\ split = NoSplit

NextCli ==
  \/ MainHelp
  \/ MainUsageError
  \/ MainNoExistingPaths
  \/ MainValidate
  \/ ValidateFsMissingPath
  \/ ValidateFsNoFiles
  \/ ValidateFsDiscover
  \/ ScanNextFile
  \/ ValidateFsFinish
  \/ MainFatal
  \/ MainWrite
  \/ MainWriteFails

SpecCli == InitCli /\ [][NextCli]_vars

(***************************************************************************)
(* The loop of validate_fs run by independent workers, one for each file,  *)
(* after the sequential call: the concurrent implementation of the         *)
(* specification, section 5                                                *)
(***************************************************************************)
\* a worker has not returned yet
Pending == [done |-> FALSE]

\* the body of the loop for one file, with nothing but its inputs: whether
\* the file counts as scanned, and its errors
WorkerResult(fs, file_path, max_file_size, config) ==
  LET Scanned(item) ==
        IF ~item.some \/ content_format_for(file_path) = "none"
        THEN [done |-> TRUE, counted |-> FALSE, errors |-> <<>>]
        ELSE [done |-> TRUE, counted |-> TRUE,
              errors |-> ScanItem(item.content, file_path, config)]
  IN Scanned(read_validation_item(fs, file_path, max_file_size))

\* the final merge: the error lists one after the other in the order of the
\* files, and the number of files that count
MergeSlots(returned) ==
  BuildReport(Cardinality({i \in 1..Len(returned) : returned[i].counted}),
              Flatten([i \in 1..Len(returned) |-> returned[i].errors]))

\* the report of the sequential loop is kept and a worker is started for
\* every file of the list
Fork ==
  /\ pc = "done"
  /\ result.tag = "ok"
  /\ ~previous.some
  /\ previous' = [some |-> TRUE, result |-> result, paths |-> fs_config.paths]
  /\ slots' = [i \in 1..Len(files) |-> Pending]
  /\ pc' = "workers"
  /\ result' = NoResult
  /\ UNCHANGED <<inputs, files, idx, errors, files_scanned, visited, cli, stdout,
                 exit_code, declared,
                 instance, split>>

\* any worker that has not returned scans its file
WorkerScan ==
  /\ pc = "workers"
  /\ \E i \in 1..Len(files) :
       /\ ~slots[i].done
       /\ slots' = [slots EXCEPT ![i] = WorkerResult(disk, files[i],
                                                      fs_config.max_file_size,
                                                      validation_config)]
  /\ UNCHANGED <<inputs, pc, files, idx, errors, files_scanned, visited, result,
                 previous, cli, stdout, exit_code, declared,
                 instance, split>>

\* every worker has returned: the merge
Join ==
  /\ pc = "workers"
  /\ \A i \in 1..Len(files) : slots[i].done
  /\ result' = OkResult(MergeSlots(slots))
  /\ pc' = "joined"
  /\ UNCHANGED <<inputs, files, idx, errors, files_scanned, visited, previous,
                 cli, stdout, exit_code, slots, declared,
                 instance, split>>

\* the path lists of the runs with workers
WorkerPaths == {<<>>, <<PathMissing>>, <<PathD>>, <<PathSub, PathTop>>, <<PathText1>>}

InitWorkers ==
  /\ disk = Tree
  /\ fs_config \in [paths : WorkerPaths,
                    exclude : {<<>>},
                    max_file_size : {DefaultMaxFileSize,
                                     ByteLen(Tree[PathStream].content) - 1},
                    follow_links : {TRUE}]
  /\ validation_config \in ValidationConfigs
  /\ Called

NextWorkers == Next \/ Fork \/ WorkerScan \/ Join

SpecWorkers == InitWorkers /\ [][NextWorkers]_vars

(***************************************************************************)
(* One data file that holds one candidate, put together from pieces: every *)
(* piece is written to pass the grammar or to break one rule of it         *)
(***************************************************************************)
\* pieces of five fields and a version v<digits> or v<digits>.<digits>
GoodPieces ==
  {<<"x",".","c","o","r","e",".","p","k","g",".","m","y","t","y","p","e",".","v","1">>,
   <<"a","_","b",".","c","_","d",".","e","_","f",".","g","_","h",".","v","1">>,
   <<"x",".","c","o","r","e",".","p","k","g",".","m","y","t","y","p","e",".","v","2",".","1">>}

\* the pieces of the identifiers of the tests
TestPieces ==
  {<<"v","e","n","d","o","r","_","n","a","m","e",".","p","a","c","k","a","g","e","_","n","a","m","e",".","n","a","m","e","s","p","a","c","e","_","n","a","m","e",".","t","y","p","e","_","n","a","m","e",".","v","1">>,
   <<"x",".","t","e","s","t",".","e","n","t","i","t","i","e","s",".","v","e","r","s","i","o","n","e","d",".","v","2",".","1">>}

\* pieces that break one rule: one field, four fields, six fields, a hyphen,
\* a version without v, a version without digits, a minor that is no
\* number, a third version number, an empty field, a second "gts." prefix,
\* and the empty piece
BadPieces ==
  {<<"i","n","v","a","l","i","d">>,
   <<"x",".","c","o","r","e",".","p","k","g",".","v","1">>,
   <<"x",".","c","o","r","e",".","p","k","g",".","m","y",".","t","y","p","e",".","v","1">>,
   <<"m","y","-","v",".","c","o","r","e",".","p","k","g",".","m","y","t","y","p","e",".","v","1">>,
   <<"x",".","c","o","r","e",".","p","k","g",".","m","y","t","y","p","e",".","1">>,
   <<"x",".","c","o","r","e",".","p","k","g",".","m","y","t","y","p","e",".","v">>,
   <<"x",".","c","o","r","e",".","p","k","g",".","m","y","t","y","p","e",".","v","1",".","x">>,
   <<"x",".","c","o","r","e",".","p","k","g",".","m","y","t","y","p","e",".","v","1",".","2",".","3">>,
   <<"x",".",".","p","k","g",".","m","y","t","y","p","e",".","v","1">>,
   <<"g","t","s",".","x",".","c","o","r","e",".","p","k","g",".","m","y","t","y","p","e",".","v","1">>,
   <<>>}

\* the most pieces of a candidate
MaxPieces == 2

\* the chains of pieces, every piece with the mark of its kind; the long
\* pieces of the tests stand alone
PieceChains ==
  UNION {[1..n -> ([text : GoodPieces, good : {TRUE}]
                     \cup [text : BadPieces, good : {FALSE}])] :
           n \in 1..MaxPieces}
    \cup {<<[text |-> piece, good |-> TRUE]>> : piece \in TestPieces}

\* "gts." and the pieces, a "~" between them and, if closed, one at the end
CandidateText(chain, closed) ==
  GtsPrefix
    \o Flatten([i \in 1..Len(chain) |->
                  chain[i].text \o (IF i < Len(chain) \/ closed THEN <<"~">> ELSE <<>>)])

\* the pieces that are left when the empty piece at the end of a chain that
\* is not closed is taken for the trailing one
PiecesKept(chain, closed) ==
  IF ~closed /\ chain[Len(chain)].text = <<>> /\ Len(chain) > 1
  THEN Sub(chain, 1, Len(chain) - 1)
  ELSE chain

\* by construction: at least one piece, and every piece a good one
BuiltWellFormed(chain, closed) ==
  \A i \in 1..Len(PiecesKept(chain, closed)) : PiecesKept(chain, closed)[i].good

PathOkYaml == <<<<"o","k",".","y","a","m","l">>>>

PathOkJson == <<<<"o","k",".","j","s","o","n">>>>

PathBadYaml == <<<<"b","a","d",".","y","a","m","l">>>>

PathBadJson == <<<<"b","a","d",".","j","s","o","n">>>>

\* a candidate built well-formed is kept in a file named ok, any other in a
\* file named bad
GrammarFiles ==
  {ChainFile(IF BuiltWellFormed(chain, closed) THEN ok_bad[1] ELSE ok_bad[2],
             prefix \o CandidateText(chain, closed)) :
     chain \in PieceChains, closed \in BOOLEAN, prefix \in {<<>>, GtsUriPrefix},
     ok_bad \in {<<PathOkYaml, PathBadYaml>>, <<PathOkJson, PathBadJson>>}}

InitGrammar ==
  /\ disk \in GrammarFiles
  /\ \E path \in DOMAIN disk : fs_config = OnlyPath(path)
  /\ validation_config = [vendor |-> NoVendor, scan_keys |-> FALSE,
                          strict |-> FALSE, skip_tokens |-> <<>>]
  /\ Called

SpecGrammar == InitGrammar /\ [][NextScan]_vars

(***************************************************************************)
(* Error types declared with #[gts_error] (the trait GtsError,             *)
(* error_type.rs).  The expansion of the macro is not among the sources:   *)
(* gts_id follows the contract documented on the trait and the             *)
(* declarations of gts_error_tests.rs                                      *)
(***************************************************************************)
\* the chain of a root error: {type}~
RootChain(type) == type \o <<"~">>

\* the chain of a child error: {base_chain}{type}~
ChildChain(base_chain, type) == base_chain \o type \o <<"~">>

\* a variant that leaves the chain of the base out
GtsIdWithoutBase(base_chain, type) == GtsUriPrefix \o RootChain(type)

\* gts_id of a child error: gts://{base_chain}{type}~
GtsIdOfChild(base_chain, type) == GtsUriPrefix \o ChildChain(base_chain, type)

\* gts_id of a root error: gts://{type}~
GtsIdOfRoot(type) == GtsUriPrefix \o RootChain(type)

\* the types of the root errors of the tests
RootTypes ==
  {<<"g","t","s",".","c","f",".","c","o","r","e",".","e","r","r","o","r","s",".","e","r","r",".","v","1">>,
   <<"g","t","s",".","c","f",".","c","o","r","e",".","e","r","r","o","r","s",".","u","n","i","t",".","v","1">>}

\* the types of the child errors of the tests
ChildTypes ==
  {<<"c","f",".","s","y","s","t","e","m",".","l","o","g","i","c","a","l",".","n","o","t","_","f","o","u","n","d",".","v","1">>,
   <<"c","f",".","s","y","s","t","e","m",".","l","o","g","i","c","a","l",".","v","a","l","i","d","a","t","i","o","n","_","f","a","i","l","e","d",".","v","1">>,
   <<"c","f",".","s","y","s","t","e","m",".","t","r","a","n","s","p","o","r","t",".","c","o","n","n","e","c","t","i","o","n","_","r","e","f","u","s","e","d",".","v","1">>,
   <<"c","f",".","s","y","s","t","e","m",".","h","t","t","p",".","i","n","t","e","r","n","a","l","_","s","e","r","v","e","r","_","e","r","r","o","r",".","v","1">>}

\* the most error types declared
MaxErrors == 3

\* #[gts_error(type = ...)] on a struct
DeclareRoot ==
  /\ Len(declared) < MaxErrors
  /\ \E type \in RootTypes :
       declared' = Append(declared, [type |-> type, base |-> 0,
                                     chain |-> RootChain(type),
                                     gts_id |-> GtsIdOfRoot(type)])
  /\ UNCHANGED <<inputs, pc, files, idx, errors, files_scanned, visited, result,
                 previous, cli, stdout, exit_code, slots, instance, split>>

\* #[gts_error(type = ..., base = ...)] on a struct, the base an error type
\* declared before
DeclareChild ==
  /\ Len(declared) < MaxErrors
  /\ \E type \in ChildTypes, base \in 1..Len(declared) :
       declared' = Append(declared, [type |-> type, base |-> base,
                                     chain |-> ChildChain(declared[base].chain, type),
                                     gts_id |-> GtsIdOfChild(declared[base].chain, type)])
  /\ UNCHANGED <<inputs, pc, files, idx, errors, files_scanned, visited, result,
                 previous, cli, stdout, exit_code, slots, instance, split>>

InitError ==
  /\ disk = Tree
  /\ fs_config = DefaultFsConfig
  /\ validation_config = DefaultValidationConfig
  /\ Called

NextError == DeclareRoot \/ DeclareChild

SpecError == InitError /\ [][NextError]_vars

(***************************************************************************)
(* error_metadata of a value of an error type (the trait GtsError,         *)
(* error_type.rs): the fields of the struct are gone through in the order  *)
(* of their declaration.  The expansion of the macro is not among the      *)
(* sources: the model follows the contract documented on the trait and     *)
(* the structs of gts_error_tests.rs, whose field names differ from each   *)
(* other and from "errors" and of which at most one is marked as_errors    *)
(***************************************************************************)
\* "errors"
KeyErrors == <<"e","r","r","o","r","s">>

\* a variant that stores every field under its own name
MetadataKeyOwnName(field) == field.name

\* the key a field is stored under
MetadataKey(field) == IF field.attr = "as_errors" THEN KeyErrors ELSE field.name

\* a field that is not marked skip_metadata
Eligible(field) == field.attr # "skip_metadata"

\* the names of the fields of the structs
FieldNames ==
  {<<"v","i","o","l","a","t","i","o","n","s">>,
   <<"e","n","t","i","t","y","_","t","y","p","e">>,
   <<"r","a","w","_","i","n","p","u","t">>,
   <<"t","a","r","g","e","t","_","h","o","s","t">>}

\* the most fields of a struct
MaxFields == 3

\* a field: its name, its mark and its value (the name again, as a string)
Fields ==
  {[name |-> n, attr |-> a, value |-> VStr(n)] :
     n \in FieldNames, a \in {"plain", "as_errors", "skip_metadata"}}

\* the structs: no field (a unit struct) up to MaxFields fields of
\* different names, at most one of them marked as_errors
Structs ==
  {s \in SeqsUpTo(Fields, MaxFields) :
     /\ \A i \in 1..Len(s), j \in 1..Len(s) : i # j => s[i].name # s[j].name
     /\ Cardinality({i \in 1..Len(s) : s[i].attr = "as_errors"}) <= 1}

\* the next field is stored in the map, or passed over if it is marked
\* skip_metadata
CollectField ==
  /\ instance.some
  /\ ~instance.returned
  /\ instance.pos <= Len(instance.fields)
  /\ instance' =
       [instance EXCEPT
          !.pos = @ + 1,
          !.map = IF Eligible(instance.fields[instance.pos])
                  THEN MapInsert(@, MetadataKey(instance.fields[instance.pos]),
                                 instance.fields[instance.pos].value)
                  ELSE @]
  /\ UNCHANGED <<inputs, pc, files, idx, errors, files_scanned, visited, result,
                 previous, cli, stdout, exit_code, slots, declared, split>>

\* after the last field: None when nothing was stored, the map otherwise
ReturnMetadata ==
  /\ instance.some
  /\ ~instance.returned
  /\ instance.pos > Len(instance.fields)
  /\ instance' =
       [instance EXCEPT
          !.returned = TRUE,
          !.metadata = IF instance.map = <<>> THEN [some |-> FALSE]
                       ELSE [some |-> TRUE, map |-> instance.map]]
  /\ UNCHANGED <<inputs, pc, files, idx, errors, files_scanned, visited, result,
                 previous, cli, stdout, exit_code, slots, declared, split>>

InitMetadata ==
  /\ disk = Tree
  /\ fs_config = DefaultFsConfig
  /\ validation_config = DefaultValidationConfig
  /\ pc = "start"
  /\ Entered
  /\ previous = NoPrevious
  /\ cli = NoCli
  /\ stdout = <<>>
  /\ exit_code = "none"
  /\ slots = <<>>
  /\ declared = <<>>
  /\ split = NoSplit
  /\ \E s \in Structs :
       instance = [some |-> TRUE, fields |-> s, pos |-> 1, map |-> <<>>,
                   returned |-> FALSE, metadata |-> [some |-> FALSE]]

NextMetadata == CollectField \/ ReturnMetadata

SpecMetadata == InitMetadata /\ [][NextMetadata]_vars

(***************************************************************************)
(* split_yaml_documents on its own: a text of a few lines, split once      *)
(***************************************************************************)
\* the lines of the texts: "---", " ---", "--- ", "----", "k: v", the empty
\* line and a line of one blank
SplitLines ==
  {Separator, <<" ">> \o Separator, Separator \o <<" ">>, Separator \o <<"-">>,
   <<"k", ":", " ", "v">>, <<>>, <<" ">>}

\* the most lines of a text
MaxLines == 4

\* the texts: every line followed by a line feed, or the last one not
SplitTexts ==
  UNION {{Text(lines), JoinLines(lines)} : lines \in SeqsUpTo(SplitLines, MaxLines)}

\* split_yaml_documents(content)
CallSplit ==
  /\ split.some
  /\ ~split.returned
  /\ split' = [split EXCEPT !.returned = TRUE,
                            !.documents = split_yaml_documents(split.content)]
  /\ UNCHANGED <<inputs, pc, files, idx, errors, files_scanned, visited, result,
                 previous, cli, stdout, exit_code, slots, declared, instance>>

InitSplit ==
  /\ disk = Tree
  /\ fs_config = DefaultFsConfig
  /\ validation_config = DefaultValidationConfig
  /\ pc = "start"
  /\ Entered
  /\ previous = NoPrevious
  /\ cli = NoCli
  /\ stdout = <<>>
  /\ exit_code = "none"
  /\ slots = <<>>
  /\ declared = <<>>
  /\ instance = NoInstance
  /\ \E content \in SplitTexts :
       split = [some |-> TRUE, content |-> content, returned |-> FALSE,
                documents |-> <<>>]

NextSplit == CallSplit

SpecSplit == InitSplit /\ [][NextSplit]_vars

(***************************************************************************)
(* One data file, JSON or YAML, that holds an array of strings, nulls,     *)
(* booleans and numbers, some of them inside a further array or object     *)
(***************************************************************************)
\* "gts.a", "gts.b": two candidates that are no identifiers
CandidateA == <<"g","t","s",".","a">>

CandidateB == <<"g","t","s",".","b">>

\* "a"
KeyA == <<"a">>

TreeLeaves == {VStr(CandidateA), VStr(CandidateB), VNull, VBool(TRUE), VNum(<<"7">>)}

\* the leaves that also occur one level deeper
NestedLeaves == {VStr(CandidateB), VNum(<<"7">>)}

\* an element of the array: a leaf, or a leaf inside an array or an object
TreeElements ==
  TreeLeaves \cup {VArr(<<x>>) : x \in NestedLeaves}
             \cup {Single(KeyA, x) : x \in NestedLeaves}

\* the longest array
MaxElems == 2

TreeArrays == {VArr(items) : items \in SeqsUpTo(TreeElements, MaxElems) \ {<<>>}}

\* a leaf as text
RenderLeaf(value) ==
  CASE value.t = "str" -> value.s
    [] value.t = "num" -> value.n
    [] value.t = "bool" -> IF value.b THEN <<"t","r","u","e">> ELSE <<"f","a","l","s","e">>
    [] OTHER -> <<"n","u","l","l">>

\* the value as JSON text
RECURSIVE RenderJsonAny(_)
RenderJsonAny(value) ==
  CASE value.t = "str" -> <<"\"">> \o value.s \o <<"\"">>
    [] value.t = "arr" ->
         <<"[">> \o Flatten(CommaSeparated([i \in 1..Len(value.a) |->
                                              RenderJsonAny(value.a[i])])) \o <<"]">>
    [] value.t = "obj" ->
         <<"{">> \o Flatten(CommaSeparated([i \in 1..Len(value.m) |->
                                              <<"\"">> \o value.m[i].k \o <<"\"", ":">>
                                                \o RenderJsonAny(value.m[i].v)]))
                 \o <<"}">>
    [] OTHER -> RenderLeaf(value)

\* the array as the lines of a YAML block sequence under the key "items"
RenderYamlItems(array) ==
  LET Item(e) ==
        CASE e.t = "arr" -> <<"-", " ">> \o RenderLeaf(e.a[1])
          [] e.t = "obj" -> e.m[1].k \o <<":", " ">> \o RenderLeaf(e.m[1].v)
          [] OTHER -> RenderLeaf(e)
  IN <<KeyItems \o <<":">>>>
       \o [i \in 1..Len(array.a) |-> <<" ", " ", "-", " ">> \o Item(array.a[i])]

\* "items:" with the one element "gts.b"
YamlSecondDocument == RenderYamlItems(VArr(<<VStr(CandidateB)>>))

PathTreeJson == <<<<"t",".","j","s","o","n">>>>

PathTreeYaml == <<<<"t",".","y","a","m","l">>>>

TreeFiles ==
  {OneFile(PathTreeJson, RenderJsonAny(t)) : t \in TreeArrays}
    \cup {OneFile(PathTreeYaml, Text(RenderYamlItems(t))) : t \in TreeArrays}
    \cup {OneFile(PathTreeYaml,
                  Text(RenderYamlItems(t) \o <<Separator>> \o YamlSecondDocument)) :
            t \in TreeArrays}

TreeConfigs ==
  [vendor : {NoVendor},
   scan_keys : BOOLEAN,
   strict : {FALSE},
   skip_tokens : {<<>>}]

InitTree ==
  /\ disk \in TreeFiles
  /\ \E p \in DOMAIN disk : fs_config = OnlyPath(p)
  /\ validation_config \in TreeConfigs
  /\ Called

SpecTree == InitTree /\ [][NextScan]_vars

(***************************************************************************)
(* One Markdown file of a few lines, each with an identifier of vendor y   *)
(* and a skip token before it, after it, or not at all                     *)
(***************************************************************************)
SkipLines ==
  {IdOfVendorY,
   GivenLower \o IdOfVendorY,
   GivenUpper \o IdOfVendorY,
   IdOfVendorY \o <<" ">> \o GivenToken,
   IdOfVendorY \o <<" ">> \o GivenLower \o IdOfVendorY,
   GivenToken,
   Filler}

\* the longest file, in lines
MaxSkipLines == 2

SkipTexts == {Text(lines) : lines \in SeqsUpTo(SkipLines, MaxSkipLines)}

PathSkipFile == <<<<"b",".","m","d">>>>

SkipConfigs ==
  [vendor : {SomeVendor(VendorX)},
   scan_keys : {FALSE},
   strict : BOOLEAN,
   skip_tokens : {<<>>, <<GivenToken>>}]

InitSkip ==
  /\ \E text \in SkipTexts : disk = OneFile(PathSkipFile, text)
  /\ fs_config = OnlyPath(PathSkipFile)
  /\ validation_config \in SkipConfigs
  /\ Called

SpecSkip == InitSkip /\ [][NextScan]_vars

(***************************************************************************)
(* A directory with one file of every extension, supported or not, listed  *)
(* by name or found by the walk; one file is exactly as large as the small *)
(* ceiling and one is a byte larger                                        *)
(***************************************************************************)
\* "$id: gts.invalid"
YamlIdInvalid == <<"$","i","d",":"," ","g","t","s",".","i","n","v","a","l","i","d">>

\* {"$id": "gts.invalid"}
JsonIdInvalid == <<"{","\"","$","i","d","\"",":"," ","\"","g","t","s",".","i","n","v","a","l","i","d","\"","}">>

PathF == <<<<"f">>>>

PathFMd == <<<<"f">>, <<"a",".","m","d">>>>

PathFJson == <<<<"f">>, <<"b",".","j","s","o","n">>>>

PathFYaml == <<<<"f">>, <<"c",".","y","a","m","l">>>>

PathFLarger == <<<<"f">>, <<"d",".","y","a","m","l">>>>

PathFYml == <<<<"f">>, <<"e",".","y","m","l">>>>

PathFRaw == <<<<"f">>, <<"r",".","m","d">>>>

PathFTxt == <<<<"f">>, <<"n",".","t","x","t">>>>

PathFUpper == <<<<"f">>, <<"U",".","M","D">>>>

PathFLicense == <<<<"f">>, <<"L","I","C","E","N","S","E">>>>

FormatsTree ==
  (PathF :> DirNode)
  @@ (PathFMd :> FileNode(TRUE, Text(<<YamlIdY>>)))
  @@ (PathFJson :> FileNode(TRUE, JsonIdInvalid))
  @@ (PathFYaml :> FileNode(TRUE, Text(<<YamlIdInvalid>>)))
  @@ (PathFLarger :> FileNode(TRUE, Text(<<YamlIdInvalid, <<>>>>)))
  @@ (PathFYml :> FileNode(TRUE, Text(<<YamlIdY>>)))
  @@ (PathFRaw :> FileNode(FALSE, Text(<<YamlIdY>>)))
  @@ (PathFTxt :> FileNode(TRUE, Text(<<YamlIdY>>)))
  @@ (PathFUpper :> FileNode(TRUE, Text(<<YamlIdY>>)))
  @@ (PathFLicense :> FileNode(TRUE, Text(<<YamlIdY>>)))

FormatsPaths == DOMAIN FormatsTree

\* the default ceiling, and the size of c.yaml
FormatsFileSizes == {DefaultMaxFileSize, ByteLen(FormatsTree[PathFYaml].content)}

FormatsConfigs ==
  {[vendor |-> SomeVendor(VendorX), scan_keys |-> FALSE, strict |-> FALSE,
    skip_tokens |-> <<>>],
   [vendor |-> SomeVendor(VendorX), scan_keys |-> FALSE, strict |-> TRUE,
    skip_tokens |-> <<>>],
   [vendor |-> SomeVendor(VendorX), scan_keys |-> FALSE, strict |-> FALSE,
    skip_tokens |-> <<KeyId>>]}

InitFormats ==
  /\ disk = FormatsTree
  /\ fs_config \in [paths : SeqsUpTo(FormatsPaths, MaxPaths) \ {<<>>},
                    exclude : {<<>>},
                    max_file_size : FormatsFileSizes,
                    follow_links : {TRUE}]
  /\ validation_config \in FormatsConfigs
  /\ Called

\* a run over paths that exist, with or without files to scan
NextFormats ==
  \/ ValidateFsNoFiles
  \/ ValidateFsDiscover
  \/ ScanNextFile
  \/ ValidateFsFinish

SpecFormats == InitFormats /\ [][NextFormats]_vars

(***************************************************************************)
(* Properties                                                              *)
(***************************************************************************)
\* validate_fs has returned a report
Finished == pc = "done" /\ result.tag = "ok"

Report == result.report

Range(s) == {s[i] : i \in DOMAIN s}

\* the file of a run over one file, and its text
TheFile == CHOOSE p \in DOMAIN disk : disk[p].kind = "file"

TheText == disk[TheFile].content

\* the file can be read as text and is no larger than the ceiling
Readable(path) ==
  /\ disk[Location(path)].utf8
  /\ ByteLen(disk[Location(path)].content) <= fs_config.max_file_size

\* what a scanner reports for a file that is read
FileErrors(path) ==
  IF Readable(path)
  THEN ScanItem(disk[Location(path)].content, path, validation_config)
  ELSE <<>>

AllOfKind(errs, kind, raw) ==
  \A i \in 1..Len(errs) : errs[i].kind = kind /\ errs[i].raw = raw

\* the lines that hold nothing but "---" and blanks
SeparatorLines(lines) == {i \in 1..Len(lines) : Trim(lines[i]) = Separator}

\* the texts between the separator lines, those of blanks only left out
DocumentsBetween(lines) ==
  SelectSeq([k \in 1..(Cardinality(SeparatorLines(lines)) + 1) |->
               JoinLines(SplitAt(lines, SeparatorLines(lines))[k])],
            LAMBDA d : Trim(d) # <<>>)

\* every document walked on its own, a document that fails to parse left out
PerDocumentErrors(docs, path, config) ==
  Flatten([i \in 1..Len(docs) |->
             IF ParseYamlDoc(docs[i]).ok
             THEN WalkJsonValue(ParseYamlDoc(docs[i]).v, path, config.vendor,
                                RootPath, config.scan_keys)
             ELSE <<>>])

\* C1: when the stream as a whole fails to parse, the errors of a YAML file
\* are those of every document that parses on its own, in order, and nothing
\* for a document that does not; the stream of the example with a malformed
\* middle document and expected vendor x gives exactly two vendor mismatches
C1_FallbackPerDocument ==
  (Finished /\ ~ParseYamlStream(TheText).ok) =>
    /\ Report.errors =
         PerDocumentErrors(DocumentsBetween(Lines(TheText)), TheFile, validation_config)
    /\ (TheText = YamlStreamExample /\ validation_config.vendor = SomeVendor(VendorX)) =>
         /\ Len(Report.errors) = 2
         /\ AllOfKind(Report.errors, "VendorMismatch", IdOfVendorY)

C1_Witness ==
  /\ Finished
  /\ TheText = YamlStreamExample
  /\ ~ParseYamlStream(TheText).ok
  /\ validation_config.vendor = SomeVendor(VendorX)
  /\ Report.errors_count = 2

\* no document of the YAML text parses
NoDocumentParses(content) ==
  /\ ~ParseYamlStream(content).ok
  /\ \A i \in 1..Len(split_yaml_documents(content)) :
       ~ParseYamlDoc(split_yaml_documents(content)[i]).ok

\* the content is not of the format the extension declares
FailsToDecode(path) ==
  \/ /\ content_format_for(path) = "Json"
     /\ ~ParseJson(disk[Location(path)].content).ok
  \/ /\ content_format_for(path) = "Yaml"
     /\ NoDocumentParses(disk[Location(path)].content)

\* C2: a file whose content fails to decode as its format yields no error and
\* is not counted in files_scanned (here: the count is that of the files that
\* are read and decode)
C2_UndecodableNotCounted ==
  Finished =>
    /\ \A k \in 1..Len(Report.errors) : ~FailsToDecode(Report.errors[k].file)
    /\ Report.files_scanned =
         Cardinality({i \in 1..Len(files) :
                        Readable(files[i]) /\ ~FailsToDecode(files[i])})

\* C3: in every report, errors_count is the length of errors and ok holds
\* exactly when errors is empty
C3_ReportDerivedFields ==
  result.tag = "ok" =>
    /\ Report.errors_count = Len(Report.errors)
    /\ Report.ok <=> Report.errors = <<>>

C3_Witness ==
  /\ Finished
  /\ Report.errors # <<>>
  /\ Report.errors_count >= 2
  /\ ~Report.ok

\* the files the provided paths name, whatever the order of paths and walks
DiscoveredSet ==
  UNION {Range(FilesOfPath(disk, fs_config.paths[k], fs_config.exclude, FALSE)) :
           k \in 1..Len(fs_config.paths)}

\* C4: the file list is in ascending order without duplicates and does not
\* depend on the order of the provided paths or of the walk; the errors of
\* the report are the errors of the files, file after file in that order
C4_OrderedReport ==
  /\ \A i, j \in 1..Len(files) : i < j => PathLess(files[i], files[j])
  /\ (pc = "scan" \/ Finished) => files = Ascending(DiscoveredSet)
  /\ Finished =>
       Report.errors = Flatten([i \in 1..Len(files) |-> FileErrors(files[i])])

C4_Witness ==
  /\ Finished
  /\ fs_config.paths = <<PathTop, PathD>>
  /\ Len(files) >= 3
  /\ FileErrors(files[1]) # <<>>
  /\ FileErrors(files[Len(files)]) # <<>>
  /\ files[Len(files)] = PathTop

\* C5: each file is scanned once, however the provided paths name it: the
\* count of scanned files is the number of locations read
C5_EachFileOnce ==
  Finished =>
    Report.files_scanned =
      Cardinality({Location(files[i]) : i \in {j \in 1..Len(files) : Readable(files[j])}})

\* the path list is empty or names something that does not exist
BadPaths ==
  \/ fs_config.paths = <<>>
  \/ \E k \in 1..Len(fs_config.paths) : Location(fs_config.paths[k]) \notin DOMAIN disk

\* C6: validate_fs returns an error exactly when the path list is empty or a
\* path does not exist, and then nothing is scanned; otherwise it returns a
\* report, which is 0 files, 0 errors, ok when no file can be scanned
C6_ErrorIffBadPaths ==
  /\ BadPaths => (files_scanned = 0 /\ visited = <<>> /\ errors = <<>>)
  /\ pc = "done" =>
       /\ result.tag = "err" <=> BadPaths
       /\ result.tag = "ok" <=> ~BadPaths
       /\ (result.tag = "ok" /\ \A i \in 1..Len(files) : ~Readable(files[i])) =>
            Report = [files_scanned |-> 0, errors_count |-> 0, ok |-> TRUE,
                      errors |-> <<>>]

C6_Witness ==
  /\ pc = "done"
  /\ result.tag = "err"
  /\ fs_config.paths = <<PathD, PathMissing>>
  /\ FilesOfPath(disk, PathD, fs_config.exclude, FALSE) # <<>>

C6_WitnessNothingToScan ==
  /\ Finished
  /\ files # <<>>
  /\ \A i \in 1..Len(files) : ~Readable(files[i])

\* C7: a file that is not UTF-8 or is larger than max_file_size is skipped: it
\* is not counted and has no errors in the report, and the other files are
\* scanned and reported
C7_UnreadableSkipped ==
  Finished =>
    /\ visited = SelectSeq(files, Readable)
    /\ Report.files_scanned = Len(SelectSeq(files, Readable))
    /\ \A k \in 1..Len(Report.errors) : Readable(Report.errors[k].file)
    /\ \A i \in 1..Len(files) :
         Readable(files[i]) => Range(FileErrors(files[i])) \subseteq Range(Report.errors)

C7_Witness ==
  /\ Finished
  /\ \E i \in 1..Len(files) :
       ~disk[Location(files[i])].utf8
         /\ ByteLen(disk[Location(files[i])].content) <= fs_config.max_file_size
  /\ \E i \in 1..Len(files) :
       disk[Location(files[i])].utf8
         /\ ByteLen(disk[Location(files[i])].content) > fs_config.max_file_size
  /\ Report.files_scanned >= 1
  /\ Report.errors # <<>>

\* a token that begins in the line holds the identifier with the hyphen
HoldsMalformedToken(line) ==
  \E i \in 1..Len(line) :
    IsTokenStart(line, i) /\ Contains(HeuristicSpan(line, i), IdWithHyphen)

\* C8: a malformed gts. token in a Markdown file is not discovered in the
\* default mode (no error is of a malformed identifier, and the file of the
\* example passes) and is reported in strict mode (the run fails)
C8_StrictFindsMalformed ==
  Finished =>
    /\ ~validation_config.strict =>
         /\ \A k \in 1..Len(Report.errors) : Report.errors[k].kind # "Malformed"
         /\ TheText = IdWithHyphen => Report.ok /\ Report.errors = <<>>
    /\ (validation_config.strict /\ validation_config.skip_tokens = <<>>) =>
         /\ \A n \in 1..Len(Lines(TheText)) :
              HoldsMalformedToken(Lines(TheText)[n]) =>
                /\ ~Report.ok
                /\ \E k \in 1..Len(Report.errors) :
                     /\ Report.errors[k].kind = "Malformed"
                     /\ Report.errors[k].at = Decimal(n)
         /\ TheText = IdWithHyphen =>
              /\ Report.errors_count = 1
              /\ AllOfKind(Report.errors, "Malformed", IdWithHyphen)

C8_Witness ==
  /\ Finished
  /\ TheText = IdWithHyphen
  /\ validation_config.strict
  /\ Report.errors_count = 1
  /\ ~Report.ok

C8_WitnessDefaultMode ==
  /\ Finished
  /\ TheText = IdWithHyphen
  /\ ~validation_config.strict
  /\ Report.ok

\* the token occurs, whatever its case, in the first n characters of the line
TokenWithin(line, n, token) ==
  \E j \in 1..n :
    /\ j + Len(token) - 1 <= n
    /\ ToLower(Sub(line, j, j + Len(token) - 1)) = ToLower(token)

\* the candidate occurs in the line at a place no skip token precedes
OccursUnsuppressed(line, cand, skip_tokens) ==
  \E i \in 1..Len(line) :
    /\ OccursAt(line, cand, i)
    /\ \A t \in 1..Len(skip_tokens) : ~TokenWithin(line, i - 1, skip_tokens[t])

\* no skip token occurs anywhere in the text
NoTokenInText(text, skip_tokens) ==
  \A t \in 1..Len(skip_tokens) : ~TokenWithin(text, Len(text), skip_tokens[t])

\* C9: in Markdown, a candidate that a skip token precedes on its line,
\* whatever the case, gives no error; without a matching skip token it is
\* validated as usual (the line of the example with expected vendor x: one
\* vendor mismatch without the token and none with it)
C9_SkipTokenSuppresses ==
  Finished =>
    /\ \A k \in 1..Len(Report.errors) :
         \E n \in 1..Len(Lines(TheText)) :
           /\ Report.errors[k].at = Decimal(n)
           /\ OccursUnsuppressed(Lines(TheText)[n], Report.errors[k].raw,
                                 validation_config.skip_tokens)
    /\ NoTokenInText(TheText, validation_config.skip_tokens) =>
         Report.errors =
           scan_markdown_content(TheText, TheFile, validation_config.vendor,
                                 validation_config.strict, <<>>)
    /\ (TheText \in {MdGivenLine, GivenUpper \o IdOfVendorY}
          /\ validation_config.vendor = SomeVendor(VendorX)) =>
         /\ validation_config.skip_tokens = <<GivenToken>> => Report.errors = <<>>
         /\ validation_config.skip_tokens = <<>> =>
              /\ Report.errors_count = 1
              /\ AllOfKind(Report.errors, "VendorMismatch", IdOfVendorY)

C9_Witness ==
  /\ Finished
  /\ TheText = MdGivenLine
  /\ validation_config.vendor = SomeVendor(VendorX)
  /\ validation_config.skip_tokens = <<GivenToken>>
  /\ Report.errors = <<>>

C9_WitnessWithoutToken ==
  /\ Finished
  /\ TheText = MdGivenLine
  /\ validation_config.vendor = SomeVendor(VendorX)
  /\ validation_config.skip_tokens = <<>>
  /\ Report.errors_count = 1

\* the keys and the strings of a value, at every depth
RECURSIVE KeysIn(_)
KeysIn(value) ==
  IF value.t = "obj"
  THEN UNION {{value.m[i].k} \cup KeysIn(value.m[i].v) : i \in 1..Len(value.m)}
  ELSE IF value.t = "arr" THEN UNION {KeysIn(value.a[i]) : i \in 1..Len(value.a)}
  ELSE {}

RECURSIVE StringsIn(_)
StringsIn(value) ==
  IF value.t = "obj" THEN UNION {StringsIn(value.m[i].v) : i \in 1..Len(value.m)}
  ELSE IF value.t = "arr" THEN UNION {StringsIn(value.a[i]) : i \in 1..Len(value.a)}
  ELSE IF value.t = "str" THEN {value.s}
  ELSE {}

\* the value the data file holds
TheValue ==
  IF content_format_for(TheFile) = "Json" THEN ParseJson(TheText)
  ELSE ParseYamlDoc(TheText)

\* C10: in JSON and YAML, a key gives an error only when scan_keys is set:
\* without it every error is of a string value, with it a key that breaks
\* the vendor policy gives a vendor mismatch (the object of the example with
\* expected vendor x passes without scan_keys and has one vendor mismatch
\* with it)
C10_KeysOnlyWithScanKeys ==
  (Finished /\ TheValue.ok) =>
    /\ ~validation_config.scan_keys =>
         \A k \in 1..Len(Report.errors) : Report.errors[k].raw \in StringsIn(TheValue.v)
    /\ (validation_config.scan_keys /\ validation_config.vendor = SomeVendor(VendorX)) =>
         \A key \in KeysIn(TheValue.v) :
           key = KeyOfVendorY =>
             \E k \in 1..Len(Report.errors) :
               /\ Report.errors[k].raw = key
               /\ Report.errors[k].kind = "VendorMismatch"
    /\ (TheText = JsonKeyExample /\ validation_config.vendor = SomeVendor(VendorX)) =>
         /\ ~validation_config.scan_keys => Report.ok
         /\ validation_config.scan_keys =>
              /\ Report.errors_count = 1
              /\ AllOfKind(Report.errors, "VendorMismatch", KeyOfVendorY)
              /\ ~Report.ok

C10_Witness ==
  /\ Finished
  /\ TheText = JsonKeyExample
  /\ validation_config.vendor = SomeVendor(VendorX)
  /\ validation_config.scan_keys
  /\ Report.errors_count = 1

C10_WitnessWithoutScanKeys ==
  /\ Finished
  /\ TheText = JsonKeyExample
  /\ validation_config.vendor = SomeVendor(VendorX)
  /\ ~validation_config.scan_keys
  /\ Report.ok

\* the one string of the tree with the key it sits under and its depth
RECURSIVE RefLeaf(_, _)
RefLeaf(value, depth) ==
  IF value.t = "arr" THEN RefLeaf(value.a[1], depth)
  ELSE IF value.m[1].v.t = "str"
       THEN [k |-> value.m[1].k, s |-> value.m[1].v.s, depth |-> depth]
       ELSE RefLeaf(value.m[1].v, depth + 1)

\* the string of the file sits under x-gts-ref and is "*" or a pattern that
\* ends with "*"
HoldsWildcardRef ==
  /\ TheValue.ok
  /\ RefLeaf(TheValue.v, 0).k = KeyXGtsRef
  /\ RefLeaf(TheValue.v, 0).s \in {BareWildcard, PatternOfVendorX, PatternOfVendorY}

\* C11: a string under the key x-gts-ref that is "*" or a wildcard pattern
\* such as gts.x.core.* gives no error, with or without an expected vendor,
\* in either discovery mode, with or without key scanning, at every depth of
\* objects and arrays: the report of the file is ok with no error
C11_WildcardRefExempt ==
  /\ Finished => TheValue.ok
  /\ (Finished /\ HoldsWildcardRef) =>
       /\ Report.errors = <<>>
       /\ Report.ok
       /\ Report.files_scanned = 1

C11_Witness ==
  /\ Finished
  /\ HoldsWildcardRef
  /\ TheFile = PathRefYaml
  /\ RefLeaf(TheValue.v, 0).s = PatternOfVendorY
  /\ RefLeaf(TheValue.v, 0).depth = MaxDepth
  /\ TheValue.v.m[1].k = KeyItems
  /\ validation_config.vendor = SomeVendor(VendorX)
  /\ validation_config.strict
  /\ Report.ok

\* the same pattern under $id is an error: the exemption is that of the key
C11_WitnessOutsideRef ==
  /\ Finished
  /\ TheFile = PathRefJson
  /\ RefLeaf(TheValue.v, 0).k = KeyId
  /\ RefLeaf(TheValue.v, 0).s = PatternOfVendorX
  /\ Report.errors_count = 1
  /\ AllOfKind(Report.errors, "Wildcard", PatternOfVendorX)

\* the file holds the chain of these vendors
HoldsChain(vendors) == \E chain \in ChainForms(vendors) : disk = ChainFile(TheFile, chain)

AllOfKindIn(errs, kind, raws) ==
  \A i \in 1..Len(errs) : errs[i].kind = kind /\ errs[i].raw \in raws

VendorMismatches == SelectSeq(Report.errors, LAMBDA e : e.kind = "VendorMismatch")

C12_WitnessAny ==
  /\ Finished
  /\ HoldsChain(<<VendorY>>)
  /\ validation_config.vendor = NoVendor
  /\ Report.ok
  /\ Report.files_scanned = 1

\* C13: a file whose only identifier is gts.x.core.pkg.mytype.v1~, as it is
\* or after gts://, scanned without an expected vendor in either discovery
\* mode, gives the report of one scanned file, no error, ok
C13_WellFormedBaseline ==
  (Finished /\ HoldsChain(<<VendorX>>) /\ validation_config.vendor = NoVendor) =>
    Report = [files_scanned |-> 1, errors_count |-> 0, ok |-> TRUE, errors |-> <<>>]

C13_Witness ==
  /\ Finished
  /\ disk = ChainFile(PathMdFile, GtsUriPrefix \o IdOfVendorX)
  /\ validation_config.vendor = NoVendor
  /\ validation_config.strict
  /\ visited = <<PathMdFile>>
  /\ Report.ok

C13_WitnessYaml ==
  /\ Finished
  /\ disk = ChainFile(PathYamlFile, IdOfVendorX)
  /\ validation_config.vendor = NoVendor
  /\ ~validation_config.strict
  /\ visited = <<PathYamlFile>>
  /\ Report.ok

\* C14: a second call of validate_fs on the same files with the same
\* configuration returns the report the first call returned (the same count
\* of scanned files, the same errors in the same order), whatever the order
\* in which the paths are listed and the order in which directories are read
C14_Deterministic ==
  (pc = "done" /\ previous.some /\ previous.result.tag = "ok") =>
    /\ result.tag = "ok"
    /\ result.report.files_scanned = previous.result.report.files_scanned
    /\ result.report.errors = previous.result.report.errors
    /\ result = previous.result

C14_Witness ==
  /\ pc = "done"
  /\ previous.some
  /\ previous.paths = <<PathTop, PathD>>
  /\ fs_config.paths = <<PathD, PathTop>>
  /\ result.tag = "ok"
  /\ result = previous.result
  /\ result.report.errors_count >= 3
  /\ result.report.files_scanned >= 3

\* main has ended
Exited == pc = "exited"

\* a report was produced and written whole
ReportWritten == result.tag = "ok" /\ stdout = Rendered(cli, result.report)

\* C15 as stated: the process exits with success if and only if a report
\* was produced and written and its ok flag is true
C15_SuccessIffReportOk ==
  Exited => (exit_code = "SUCCESS" <=> (ReportWritten /\ result.report.ok))

\* C15: a run that is not a request for the help or the version exits with
\* success if and only if a report was produced and written and its ok flag
\* is true; a report with errors of any kind, an error of validate_fs, no
\* existing path and a failed write all end in a failure
C15_ExitStatus ==
  (Exited /\ cli.request \notin {"help", "version"}) =>
    /\ exit_code = "SUCCESS" <=> (ReportWritten /\ result.report.ok)
    /\ (result.tag = "ok" /\ result.report.errors # <<>>) => exit_code = "FAILURE"
    /\ result.tag = "err" => exit_code = "FAILURE"
    /\ (cli.request = "run" /\ MainPaths(disk, cli.paths) = <<>>) =>
         exit_code = "FAILURE"
    /\ (result.tag = "ok" /\ stdout # Rendered(cli, result.report)) =>
         exit_code = "FAILURE"

\* a report whose only errors are vendor mismatches was written, and the
\* process failed
C15_Witness ==
  /\ Exited
  /\ ReportWritten
  /\ result.report.errors # <<>>
  /\ \A i \in 1..Len(result.report.errors) :
       result.report.errors[i].kind = "VendorMismatch"
  /\ exit_code = "FAILURE"

\* a report without errors was written, and the process succeeded
C15_WitnessSuccess ==
  /\ Exited
  /\ ReportWritten
  /\ result.report.ok
  /\ result.report.files_scanned > 0
  /\ exit_code = "SUCCESS"

\* the write failed on a report without errors
C15_WitnessWriteFails ==
  /\ Exited
  /\ result.tag = "ok"
  /\ result.report.ok
  /\ stdout # Rendered(cli, result.report)
  /\ exit_code = "FAILURE"

\* the keys of a JSON object
KeysOf(value) == {value.m[i].k : i \in 1..Len(value.m)}

\* the value a JSON object has under a key
MemberOf(value, key) ==
  value.m[CHOOSE i \in 1..Len(value.m) : value.m[i].k = key].v

\* the text on the standard output is a JSON object with these keys, which
\* holds the number of scanned files under `count_key`
IsReportObject(text, count_key, scanned) ==
  /\ ParseJson(text).ok
  /\ ParseJson(text).v.t = "obj"
  /\ KeysOf(ParseJson(text).v) = {count_key, <<"e","r","r","o","r","s","_","c","o","u","n","t">>, <<"o","k">>, <<"e","r","r","o","r","s">>}
  /\ MemberOf(ParseJson(text).v, count_key) = VNum(Decimal(scanned))
  /\ MemberOf(ParseJson(text).v, <<"o","k">>).t = "bool"
  /\ MemberOf(ParseJson(text).v, <<"e","r","r","o","r","s">>).t = "arr"

\* main has written the whole report as JSON
JsonWritten == Exited /\ cli.json /\ ReportWritten

\* C16: the JSON rendering of a report is an object with the keys
\* scanned_files, errors_count, ok and errors, and scanned_files is the
\* number of files scanned
C16_JsonKeys ==
  JsonWritten => IsReportObject(stdout, <<"s","c","a","n","n","e","d","_","f","i","l","e","s">>, Len(visited))

\* what the rendering is: the same object with the count under the name of
\* the field of ValidationReport, files_scanned
C16_RendersFieldName ==
  JsonWritten => IsReportObject(stdout, <<"f","i","l","e","s","_","s","c","a","n","n","e","d">>, Len(visited))

\* the run of the test: one valid file scanned, written as JSON
C16_Reached ==
  /\ JsonWritten
  /\ result.report.ok
  /\ Len(visited) = 1

\* the default directories that exist in the current directory
DefaultsPresent == {d \in Range(DEFAULT_SCAN_DIRS) : Exists(disk, d)}

\* the files of the current directory that lie under one of the directories
FilesUnder(dirs) ==
  {loc \in DOMAIN disk : disk[loc].kind = "file" /\ <<loc[1]>> \in dirs}

\* validate_fs has returned to main
Returned == pc \in {"done", "exited"} /\ result # NoResult

\* C19: without a PATH argument the run scans exactly the default
\* directories that exist, a missing one being no error, and fails without a
\* report if none exists; with PATH arguments the defaults are not used and
\* a missing path is a fatal error
C19_DefaultPaths ==
  (cli.some /\ cli.request = "run" /\ pc # "main") =>
    /\ (cli.paths = <<>> /\ DefaultsPresent = {}) =>
         /\ pc = "exited"
         /\ exit_code = "FAILURE"
         /\ result = NoResult
         /\ stdout = <<>>
    /\ (cli.paths = <<>> /\ DefaultsPresent # {}) =>
         /\ Range(fs_config.paths) = DefaultsPresent
         /\ Returned =>
              /\ result.tag = "ok"
              /\ Range(visited) = FilesUnder(DefaultsPresent)
              /\ result.report.files_scanned = Cardinality(FilesUnder(DefaultsPresent))
    /\ cli.paths # <<>> =>
         /\ fs_config.paths = cli.paths
         /\ \A i \in 1..Len(visited) : \E k \in 1..Len(cli.paths) :
              Sub(visited[i], 1, Len(cli.paths[k])) = cli.paths[k]
         /\ (Returned /\ \E k \in 1..Len(cli.paths) : ~Exists(disk, cli.paths[k])) =>
              /\ result.tag = "err"
              /\ Exited => (exit_code = "FAILURE" /\ stdout = <<>>)

\* no PATH argument, docs exists and libs does not: the report of docs is
\* written
C19_Witness ==
  /\ Exited
  /\ cli.paths = <<>>
  /\ PathDocs \in DefaultsPresent
  /\ DefaultsPresent # Range(DEFAULT_SCAN_DIRS)
  /\ ReportWritten
  /\ result.report.files_scanned > 0

\* no PATH argument and no default directory
C19_WitnessNone ==
  /\ Exited
  /\ cli.request = "run"
  /\ cli.paths = <<>>
  /\ DefaultsPresent = {}

\* a PATH argument that does not exist, beside one that does
C19_WitnessMissing ==
  /\ Exited
  /\ Len(cli.paths) = 2
  /\ Exists(disk, cli.paths[1])
  /\ ~Exists(disk, cli.paths[2])
  /\ DefaultsPresent # {}

\* C17: the files scanned by independent workers in any interleaving and
\* merged in the order of the files give the report of the sequential loop,
\* the same scanned-files count and the same sequence of errors
C17_WorkersMatchSequential ==
  pc = "joined" =>
    /\ result = previous.result
    /\ result.report.files_scanned = previous.result.report.files_scanned
    /\ result.report.errors = previous.result.report.errors

\* a later file was scanned before an earlier one, both with errors
C17_Witness ==
  /\ pc = "workers"
  /\ \E i \in 1..Len(files), j \in 1..Len(files) :
       /\ i < j
       /\ ~slots[i].done
       /\ slots[j].done
       /\ slots[j].errors # <<>>
       /\ WorkerResult(disk, files[i], fs_config.max_file_size,
                       validation_config).errors # <<>>

\* the merge after the workers, over several files with errors and a file
\* that does not count
C17_WitnessJoined ==
  /\ pc = "joined"
  /\ Cardinality({i \in 1..Len(slots) : slots[i].errors # <<>>}) > 1
  /\ \E i \in 1..Len(slots) : ~slots[i].counted
  /\ result.report.errors_count > 2

\* the file of the run is one that holds a candidate built to break the
\* grammar
BuiltBad == DOMAIN disk \subseteq {PathBadYaml, PathBadJson}

\* C18: a candidate is well-formed exactly when, split on "~" with the
\* trailing empty piece discarded, it has at least one piece and every piece
\* has five fields of alphanumerics and underscores, the last a version
\* v<digits> or v<digits>.<digits>; any failing piece makes the candidate
\* malformed, which the scan reports as one error
C18_Grammar ==
  Finished =>
    /\ Report.files_scanned = 1
    /\ BuiltBad => (Len(Report.errors) = 1 /\ Report.errors[1].kind = "Malformed")
    /\ ~BuiltBad => Report.errors = <<>>

\* a chain whose second piece holds a hyphen, after a good first piece, is
\* reported
C18_Witness ==
  /\ Finished
  /\ disk = ChainFile(PathBadYaml,
                      CandidateText(<<[text |-> <<"x",".","c","o","r","e",".","p","k","g",".","m","y","t","y","p","e",".","v","1">>, good |-> TRUE],
                                      [text |-> <<"m","y","-","v",".","c","o","r","e",".","p","k","g",".","m","y","t","y","p","e",".","v","1">>, good |-> FALSE]>>, TRUE))
  /\ Report.errors # <<>>

\* "gts.invalid" is reported
C18_WitnessInvalid ==
  /\ Finished
  /\ disk = ChainFile(PathBadYaml, <<"g","t","s",".","i","n","v","a","l","i","d">>)
  /\ Report.errors # <<>>

\* the identifiers with underscores and with a minor version are accepted
C18_WitnessAccepted ==
  /\ Finished
  /\ disk \in {ChainFile(PathOkYaml, <<"g","t","s",".","v","e","n","d","o","r","_","n","a","m","e",".","p","a","c","k","a","g","e","_","n","a","m","e",".","n","a","m","e","s","p","a","c","e","_","n","a","m","e",".","t","y","p","e","_","n","a","m","e",".","v","1","~">>),
               ChainFile(PathOkJson, <<"g","t","s",".","x",".","t","e","s","t",".","e","n","t","i","t","i","e","s",".","v","e","r","s","i","o","n","e","d",".","v","2",".","1","~">>)}
  /\ Report.ok

\* the segments of a gts_id as the tests count them: "gts://" and the last
\* "~" stripped, the rest split at "~"
IdSegments(id) ==
  Split(Sub(id, Len(GtsUriPrefix) + 1, Len(id) - 1), "~")

EndsWithTilde(id) == id # <<>> /\ id[Len(id)] = "~"

C20_WitnessGrandchild ==
  \E i \in 1..Len(declared) :
    /\ declared[i].base # 0
    /\ declared[declared[i].base].base # 0
    /\ Len(IdSegments(declared[i].gts_id)) = 3

\* the fields of the value that are not marked skip_metadata
EligibleFields == {i \in 1..Len(instance.fields) : Eligible(instance.fields[i])}

\* the keys of the map error_metadata returned
MetadataKeys == {instance.metadata.map[k].k : k \in 1..Len(instance.metadata.map)}

\* the map holds the value under the key
Stored(key, value) ==
  \E k \in 1..Len(instance.metadata.map) :
    instance.metadata.map[k].k = key /\ instance.metadata.map[k].v = value

C21_WitnessAllSkipped ==
  /\ instance.some
  /\ instance.returned
  /\ Len(instance.fields) = 2
  /\ EligibleFields = {}
  /\ ~instance.metadata.some

\* a unit struct: None
C21_WitnessUnit ==
  /\ instance.some
  /\ instance.returned
  /\ instance.fields = <<>>
  /\ ~instance.metadata.some

\* split_yaml_documents has returned
SplitReturned == split.some /\ split.returned

\* the lines of the input of split_yaml_documents
InputLines == Lines(split.content)

\* the lines of all the returned documents, one document after the other
ReturnedLines ==
  Flatten([d \in 1..Len(split.documents) |-> Split(split.documents[d], "\n")])

\* C22 as stated: only the line that is exactly "---" is a separator, so
\* every other line that is not blank stays in a document
C22_ExactSeparatorOnly ==
  SplitReturned =>
    \A i \in 1..Len(InputLines) :
      (InputLines[i] # Separator /\ Trim(InputLines[i]) # <<>>) =>
        \E k \in 1..Len(ReturnedLines) : ReturnedLines[k] = InputLines[i]

\* C22: a line is a separator when it is "---" once the white space around
\* it is trimmed; every other line stays in its document as it is; a
\* document of blanks only is dropped wherever it stands, and no other
\* document is
C22_TrimmedSeparator ==
  SplitReturned =>
    /\ split.documents = DocumentsBetween(InputLines)
    /\ \A i \in 1..Len(InputLines) :
         IF Trim(InputLines[i]) = Separator
         THEN \A k \in 1..Len(ReturnedLines) : Trim(ReturnedLines[k]) # Separator
         ELSE Trim(InputLines[i]) # <<>> =>
                \E k \in 1..Len(ReturnedLines) : ReturnedLines[k] = InputLines[i]

\* "k: v", " --- ", "k: v": the padded line separates two documents
C22_Witness ==
  /\ SplitReturned
  /\ Len(InputLines) = 3
  /\ InputLines[2] # Separator
  /\ Trim(InputLines[2]) = Separator
  /\ Len(split.documents) = 2

\* a document of blanks between two separators is dropped, and "----" stays
\* in its document
C22_WitnessMiddle ==
  /\ SplitReturned
  /\ Len(InputLines) = 4
  /\ InputLines[2] = Separator
  /\ InputLines[3] = <<" ">>
  /\ InputLines[4] = Separator
  /\ InputLines[1] = Separator \o <<"-">>
  /\ split.documents = <<Separator \o <<"-">>>>

\* the number of separator lines up to line i: the piece line i belongs to
PieceOf(lines, i) == Cardinality({j \in 1..i : Trim(lines[j]) = Separator})

\* the piece holds a line that is neither a separator nor blank
PieceKept(lines, piece) ==
  \E i \in 1..Len(lines) :
    /\ PieceOf(lines, i) = piece
    /\ Trim(lines[i]) # Separator
    /\ Trim(lines[i]) # <<>>

\* the lines that are no separators and belong to a piece that is kept, in
\* the order of the input
KeptLines(lines) ==
  SelectSeq([i \in 1..Len(lines) |->
               IF Trim(lines[i]) # Separator /\ PieceKept(lines, PieceOf(lines, i))
               THEN <<lines[i]>> ELSE <<>>],
            LAMBDA l : l # <<>>)

\* the lines of the documents, one document after the other, each line
\* wrapped as KeptLines wraps them
WrappedLines(documents) ==
  Flatten([d \in 1..Len(documents) |->
             [k \in 1..Len(Split(documents[d], "\n")) |->
                <<Split(documents[d], "\n")[k]>>]])

\* C26: no returned document is empty or of white space only, none holds a
\* separator line, and the lines of the returned documents, in order, are
\* the input lines that are no separators and belong to no all-blank
\* document: none lost, none twice, none out of order
C26_SplitInvariant ==
  SplitReturned =>
    /\ \A d \in 1..Len(split.documents) :
         /\ Trim(split.documents[d]) # <<>>
         /\ \A k \in 1..Len(Split(split.documents[d], "\n")) :
              Trim(Split(split.documents[d], "\n")[k]) # Separator
    /\ WrappedLines(split.documents) = KeptLines(InputLines)

\* two documents come back from a text with a separator, an all-blank
\* document and blank lines inside a kept document
C26_Witness ==
  /\ SplitReturned
  /\ Len(split.documents) = 2
  /\ Len(InputLines) = 4
  /\ Len(ReturnedLines) = 3
  /\ \E k \in 1..3 : Trim(ReturnedLines[k]) = <<>>

\* a text of separators and blank lines only: no document
C26_WitnessNone ==
  /\ SplitReturned
  /\ Len(InputLines) = 3
  /\ split.documents = <<>>

\* the lines that are document markers of a YAML stream: "---" at the start
\* of the line, blanks after it allowed
MarkerLines(lines) == {i \in 1..Len(lines) : TrimEnd(lines[i]) = Separator}

\* the documents of the stream: the texts between the markers, those of
\* blanks only left out
StreamDocuments(lines) ==
  SelectSeq([k \in 1..(Cardinality(MarkerLines(lines)) + 1) |->
               JoinLines(SplitAt(lines, MarkerLines(lines))[k])],
            LAMBDA d : Trim(d) # <<>>)

\* C23: when the whole stream parses, the errors of a YAML file are those of
\* every document of the stream, each walked on its own from the root, one
\* document after the other in the order of the stream
C23_EveryDocumentWalked ==
  (Finished /\ ParseYamlStream(TheText).ok) =>
    /\ \A d \in 1..Len(StreamDocuments(Lines(TheText))) :
         ParseYamlDoc(StreamDocuments(Lines(TheText))[d]).ok
    /\ Report.errors =
         PerDocumentErrors(StreamDocuments(Lines(TheText)), TheFile, validation_config)

\* a stream of two documents that parses: the first gives no error, the
\* second holds "ref: gts.invalid", which is reported
C23_Witness ==
  /\ Finished
  /\ ParseYamlStream(TheText).ok
  /\ TheText = YamlStream(<<<<YamlIdY>>, <<YamlIdX, YamlRefInvalid>>>>,
                          <<Separator, Separator>>)
  /\ validation_config.vendor = NoVendor
  /\ Len(Report.errors) = 1
  /\ Report.errors[1].kind = "Malformed"

\* a stream of three documents that parses, every one with an error
C23_WitnessThree ==
  /\ Finished
  /\ ParseYamlStream(TheText).ok
  /\ Len(StreamDocuments(Lines(TheText))) = 3
  /\ Len(Report.errors) >= 3
  /\ Report.errors[1].raw # Report.errors[Len(Report.errors)].raw

\* a stream that parses although a line of it is "---" with blanks before
\* it, which the line splitting would take for a separator
C23_WitnessNoFallback ==
  /\ Finished
  /\ ParseYamlStream(TheText).ok
  /\ Len(StreamDocuments(Lines(TheText))) # Len(DocumentsBetween(Lines(TheText)))

\* the number of children of a value, and its i-th child
Arity(value) ==
  CASE value.t = "arr" -> Len(value.a)
    [] value.t = "obj" -> Len(value.m)
    [] OTHER -> 0

ChildAt(value, i) == IF value.t = "arr" THEN value.a[i] ELSE value.m[i].v

\* the piece of path that leads to the i-th child: "[i-1]" or ".key"
StepTo(value, i) ==
  IF value.t = "arr" THEN <<"[">> \o Decimal(i - 1) \o <<"]">>
  ELSE <<".">> \o value.m[i].k

\* an address is the sequence of child positions from the root
RECURSIVE HasAddress(_, _)
HasAddress(value, address) ==
  \/ address = <<>>
  \/ /\ Head(address) <= Arity(value)
     /\ HasAddress(ChildAt(value, Head(address)), Tail(address))

RECURSIVE ValueAt(_, _)
ValueAt(value, address) ==
  IF address = <<>> THEN value
  ELSE ValueAt(ChildAt(value, Head(address)), Tail(address))

RECURSIVE PathTo(_, _)
PathTo(value, address) ==
  IF address = <<>> THEN <<>>
  ELSE StepTo(value, Head(address))
         \o PathTo(ChildAt(value, Head(address)), Tail(address))

\* the length of the longest address of a value
RECURSIVE Depth(_)
Depth(value) ==
  LET Deepest(depths) == CHOOSE n \in depths : \A m \in depths : m <= n
  IN IF Arity(value) = 0 THEN 0
     ELSE 1 + Deepest({Depth(ChildAt(value, i)) : i \in 1..Arity(value)})

\* every address of a value
Addresses(value) ==
  {address \in SeqsUpTo(1..MaxElems, Depth(value)) : HasAddress(value, address)}

\* the addresses of the strings of a tree
StringAddresses(value) ==
  {address \in Addresses(value) : ValueAt(value, address).t = "str"}

\* a comes before b in the order of the walk: at the first position where
\* they differ a holds the smaller index
Before(a, b) ==
  \E i \in 1..Len(a) :
    /\ i <= Len(b)
    /\ a[i] < b[i]
    /\ \A j \in 1..(i - 1) : a[j] = b[j]

\* the addresses of a set in the order of the walk
InWalkOrder(addresses) ==
  [k \in 1..Cardinality(addresses) |->
     CHOOSE a \in addresses : Cardinality({b \in addresses : Before(b, a)}) = k - 1]

\* the errors of the strings of one tree, each classified under the path
\* from "$", in the order of the walk
ErrorsOfStrings(value, file, vendor) ==
  LET ErrorsAt(address) ==
        CandidateErrors(ValueAt(value, address).s, file,
                        RootPath \o PathTo(value, address), vendor, FALSE)
      Each(ordered) == Flatten([k \in 1..Len(ordered) |-> ErrorsAt(ordered[k])])
  IN Each(InWalkOrder(StringAddresses(value)))

\* the documents of the file as the parser returns them: the one value of a
\* JSON file, the values of a YAML stream
ParsedDocuments(path, text) ==
  IF Extension(path) = ExtJson
  THEN (IF ParseJson(text).ok THEN <<ParseJson(text).v>> ELSE <<>>)
  ELSE (IF ParseYamlStream(text).ok THEN ParseYamlStream(text).v ELSE <<>>)

ErrorsOfDocuments(documents, file, vendor) ==
  Flatten([d \in 1..Len(documents) |-> ErrorsOfStrings(documents[d], file, vendor)])

\* C24: the errors of a data file are those of the strings of its documents,
\* whatever their depth and whether they sit in an object or in an array,
\* every document from the path "$", array elements under "[i]", in the
\* order of a pre-order walk; every error is about a string, none about a
\* null, a boolean or a number
C24_TreeWalk ==
  LET Walked(documents, errs) ==
        /\ errs = ErrorsOfDocuments(documents, TheFile, validation_config.vendor)
        /\ \A i \in 1..Len(errs) :
             \E d \in 1..Len(documents) :
               \E address \in StringAddresses(documents[d]) :
                 /\ errs[i].at = RootPath \o PathTo(documents[d], address)
                 /\ errs[i].raw = ValueAt(documents[d], address).s
  IN Finished => Walked(ParsedDocuments(TheFile, TheText), Report.errors)

\* "$[0][0]", "$[1]", "$.items[0].a", "$.items[0]"
PathElem00 == <<"$","[","0","]","[","0","]">>

PathElem1 == <<"$","[","1","]">>

PathItems0A == <<"$",".","i","t","e","m","s","[","0","]",".","a">>

PathItems0 == <<"$",".","i","t","e","m","s","[","0","]">>

\* a JSON array of a string inside an array and a string: both are reported,
\* the nested one first
C24_Witness ==
  /\ Finished
  /\ TheText = RenderJsonAny(VArr(<<VArr(<<VStr(CandidateB)>>), VStr(CandidateA)>>))
  /\ Len(Report.errors) = 2
  /\ Report.errors[1].at = PathElem00 /\ Report.errors[1].raw = CandidateB
  /\ Report.errors[2].at = PathElem1 /\ Report.errors[2].raw = CandidateA

\* a JSON array of a number and a string: the string is reported, the number
\* is not
C24_WitnessNumber ==
  /\ Finished
  /\ TheText = RenderJsonAny(VArr(<<VNum(<<"7">>), VStr(CandidateA)>>))
  /\ Len(Report.errors) = 1
  /\ Report.errors[1].at = PathElem1

\* a YAML stream of two documents: the string of each is reported under a
\* path from "$"
C24_WitnessStream ==
  /\ Finished
  /\ Extension(TheFile) = ExtYaml
  /\ Len(ParsedDocuments(TheFile, TheText)) = 2
  /\ Len(Report.errors) = 2
  /\ Report.errors[1].at = PathItems0A /\ Report.errors[1].raw = CandidateB
  /\ Report.errors[2].at = PathItems0 /\ Report.errors[2].raw = CandidateB

\* the line up to the end of the first occurrence of a skip token, whatever
\* its case; the whole line when it holds none
UpToFirstToken(line, skip_tokens) ==
  LET Ends == {n \in 1..Len(line) :
                 \E t \in 1..Len(skip_tokens) : TokenWithin(line, n, skip_tokens[t])}
  IN IF Ends = {} THEN line
     ELSE Sub(line, 1, CHOOSE n \in Ends : \A m \in Ends : n <= m)

\* the text with every line cut after its first skip token
CutAfterTokens(text, skip_tokens) ==
  Text([n \in 1..Len(Lines(text)) |-> UpToFirstToken(Lines(text)[n], skip_tokens)])

\* an error of line n about the candidate
ReportedAt(errs, n, cand) ==
  \E k \in 1..Len(errs) : errs[k].at = Decimal(n) /\ errs[k].raw = cand

\* C25: in Markdown a skip token protects what follows it on its own line
\* and nothing else: the errors of the file are those of a scan without skip
\* tokens of the text in which every line ends with its first skip token; a
\* candidate that no skip token precedes on its line is reported whatever
\* the other lines, and the rest of its own line, hold
C25_SkipTokenLineLocal ==
  LET LineLocal(lines, errs) ==
        /\ errs = scan_markdown_content(
                    CutAfterTokens(TheText, validation_config.skip_tokens), TheFile,
                    validation_config.vendor, validation_config.strict, <<>>)
        /\ \A n \in 1..Len(lines) :
             OccursUnsuppressed(lines[n], IdOfVendorY, validation_config.skip_tokens)
               => ReportedAt(errs, n, IdOfVendorY)
  IN Finished => LineLocal(Lines(TheText), Report.errors)

\* the skip token after the candidate on the same line: reported
C25_Witness ==
  /\ Finished
  /\ TheText = Text(<<IdOfVendorY \o <<" ">> \o GivenToken>>)
  /\ validation_config.skip_tokens = <<GivenToken>>
  /\ Report.errors_count = 1
  /\ ReportedAt(Report.errors, 1, IdOfVendorY)

\* the skip token on the line before: reported
C25_WitnessLineBefore ==
  /\ Finished
  /\ TheText = Text(<<GivenToken, IdOfVendorY>>)
  /\ validation_config.skip_tokens = <<GivenToken>>
  /\ Report.errors_count = 1
  /\ ReportedAt(Report.errors, 2, IdOfVendorY)

\* a suppressed candidate, then the same candidate on the next line: the
\* second is reported
C25_WitnessNoCarry ==
  /\ Finished
  /\ TheText = Text(<<GivenLower \o IdOfVendorY, IdOfVendorY>>)
  /\ validation_config.skip_tokens = <<GivenToken>>
  /\ Report.errors_count = 1
  /\ ReportedAt(Report.errors, 2, IdOfVendorY)

\* a candidate before the token and one after it on the same line: only the
\* first is reported
C25_WitnessBothSides ==
  /\ Finished
  /\ TheText = Text(<<IdOfVendorY \o <<" ">> \o GivenLower \o IdOfVendorY>>)
  /\ validation_config.skip_tokens = <<GivenToken>>
  /\ Report.errors_count = 1

\* the discovered files among the first n for which read_validation_item
\* returns Some
ReadOf(n) ==
  {i \in 1..n : read_validation_item(disk, files[i], fs_config.max_file_size).some}

\* C27: every discovered file has one of the extensions md, json, yaml, yml,
\* and a file that read_validation_item returns Some for has a format, so the
\* loop never leaves a file that was read uncounted: files_scanned is the
\* number of files read so far, in the end the number of discovered files
\* that are read, at most the number of discovered files
C27_NoneBranchNeverTaken ==
  /\ \A i \in 1..Len(files) :
       /\ Extension(files[i]) \in {ExtMd, ExtJson, ExtYaml, ExtYml}
       /\ content_format_for(files[i]) # "none"
       /\ read_validation_item(disk, files[i], fs_config.max_file_size).some
            => content_format_for(files[i]) \in {"Markdown", "Json", "Yaml"}
  /\ pc = "scan" => files_scanned = Cardinality(ReadOf(idx - 1))
  /\ Finished =>
       /\ Report.files_scanned = Cardinality(ReadOf(Len(files)))
       /\ Report.files_scanned <= Len(files)

\* a file without a supported extension is listed by name next to one with:
\* only the second is discovered, and it is counted
C27_Witness ==
  /\ Finished
  /\ fs_config.paths = <<PathFTxt, PathFMd>>
  /\ files = <<PathFMd>>
  /\ Report.files_scanned = 1

\* the walk of the directory: the files of the four extensions are
\* discovered, and the one that cannot be read is not counted
C27_WitnessWalk ==
  /\ Finished
  /\ fs_config.paths = <<PathF>>
  /\ fs_config.max_file_size = DefaultMaxFileSize
  /\ Len(files) = 6
  /\ Report.files_scanned = 5

\* only files without a supported extension are listed: nothing is discovered
C27_WitnessNothing ==
  /\ pc = "done"
  /\ fs_config.paths = <<PathFUpper, PathFLicense>>
  /\ files = <<>>
  /\ result.tag = "ok"
  /\ Report.files_scanned = 0

\* the errors of a report that are about one file
ErrorsAbout(errs, path) == SelectSeq(errs, LAMBDA e : e.file = path)

\* what the scanner of a data file returns, from the text, the expected
\* vendor and scan_keys alone
DataErrors(path, vendor, scan_keys) ==
  IF content_format_for(path) = "Json"
  THEN WalkParsed(ParseJson(disk[Location(path)].content), path, vendor, scan_keys)
  ELSE scan_yaml_content(disk[Location(path)].content, path, vendor, scan_keys)

\* "$.$id", "gts.invalid"
PathDollarId == <<"$",".","$","i","d">>

GtsInvalid == <<"g","t","s",".","i","n","v","a","l","i","d">>

\* C28: the errors of a .json, .yaml or .yml file are decided by its text, the
\* expected vendor and scan_keys: they are the same in strict and non-strict
\* mode and with any skip tokens, and "$id: gts.invalid" is reported as
\* malformed in every mode
C28_ModeOnlyForMarkdown ==
  Finished =>
    \A i \in 1..Len(visited) :
      content_format_for(visited[i]) \in {"Json", "Yaml"} =>
        /\ ErrorsAbout(Report.errors, visited[i])
             = DataErrors(visited[i], validation_config.vendor,
                          validation_config.scan_keys)
        /\ visited[i] \in {PathFJson, PathFYaml} =>
             ErrorsAbout(Report.errors, visited[i])
               = <<MkError(visited[i], PathDollarId, "Malformed", GtsInvalid)>>

\* "$id: gts.invalid" in a YAML file, non-strict mode: reported
C28_Witness ==
  /\ Finished
  /\ ~validation_config.strict
  /\ validation_config.skip_tokens = <<>>
  /\ visited = <<PathFYaml>>
  /\ Report.errors = <<MkError(PathFYaml, PathDollarId, "Malformed", GtsInvalid)>>

\* the same file in strict mode: the same report
C28_WitnessStrict ==
  /\ Finished
  /\ validation_config.strict
  /\ visited = <<PathFYaml>>
  /\ Report.errors = <<MkError(PathFYaml, PathDollarId, "Malformed", GtsInvalid)>>

\* a Markdown and a JSON file with the skip token "$id", which stands before
\* the identifier in both: the Markdown file gives no error, the JSON file
\* gives its error
C28_WitnessSkipToken ==
  /\ Finished
  /\ validation_config.skip_tokens = <<KeyId>>
  /\ visited = <<PathFMd, PathFJson>>
  /\ Report.errors = <<MkError(PathFJson, PathDollarId, "Malformed", GtsInvalid)>>

\* the same two files without the skip token: the Markdown file gives an
\* error as well
C28_WitnessMarkdownDiffers ==
  /\ Finished
  /\ validation_config.skip_tokens = <<>>
  /\ visited = <<PathFMd, PathFJson>>
  /\ Len(Report.errors) = 2
  /\ Report.errors[1].file = PathFMd

\* the error is one of those the scanner returns for the file
ProducedFor(error, path) ==
  /\ error.file = path
  /\ error \in Range(ScanItem(disk[Location(path)].content, path, validation_config))

\* C29: at every point of a run, each error gathered so far was returned by
\* the scanner of a file that has been counted, and no error is about a file
\* that was skipped as unreadable or oversized; a report with files_scanned 0
\* has no errors and is ok
C29_ErrorsFromCountedFiles ==
  /\ Len(visited) = files_scanned
  /\ \A k \in 1..Len(errors) :
       \E i \in 1..Len(visited) :
         Readable(visited[i]) /\ ProducedFor(errors[k], visited[i])
  /\ \A i \in 1..Len(files) :
       ~Readable(files[i]) => ErrorsAbout(errors, files[i]) = <<>>
  /\ Finished =>
       /\ Report.errors = errors
       /\ Report.files_scanned = files_scanned
       /\ Report.files_scanned = 0 =>
            Report.errors = <<>> /\ Report.ok /\ Report.errors_count = 0

\* the walk of the directory under the small ceiling: one file is counted
\* and gives the only error, the oversized and the unreadable give none
C29_Witness ==
  /\ Finished
  /\ fs_config.paths = <<PathF>>
  /\ fs_config.max_file_size = ByteLen(disk[PathFYaml].content)
  /\ Len(files) = 6
  /\ visited = <<PathFYaml>>
  /\ Len(Report.errors) = 1
  /\ Report.errors[1].file = PathFYaml

\* every discovered file is skipped: files_scanned is 0, no error, ok
C29_WitnessAllSkipped ==
  /\ Finished
  /\ fs_config.paths = <<PathFRaw, PathFLarger>>
  /\ fs_config.max_file_size = ByteLen(disk[PathFYaml].content)
  /\ Len(files) = 2
  /\ Report.files_scanned = 0
  /\ Report.ok

\* nothing is discovered: the empty report
C29_WitnessNoFiles ==
  /\ pc = "done"
  /\ result.tag = "ok"
  /\ fs_config.paths = <<PathFTxt>>
  /\ files = <<>>
  /\ Report.files_scanned = 0
  /\ Report.ok

\* metadata.len() of a discovered file
SizeOf(path) == ByteLen(disk[Location(path)].content)

\* the file was read and scanned
Scanned(path) == path \in Range(visited)

\* C30: a discovered file is skipped for its size only when it is larger
\* than max_file_size: a file of exactly max_file_size bytes is scanned, a
\* file of one byte more is not; the default ceiling is 10485760 bytes, under
\* which every file of this directory that is text is scanned
C30_CeilingInclusive ==
  /\ DefaultFsConfig.max_file_size = 10485760
  /\ Finished =>
       \A i \in 1..Len(files) :
         /\ SizeOf(files[i]) > fs_config.max_file_size => ~Scanned(files[i])
         /\ (SizeOf(files[i]) <= fs_config.max_file_size
               /\ disk[Location(files[i])].utf8) => Scanned(files[i])
         /\ (SizeOf(files[i]) = fs_config.max_file_size
               /\ disk[Location(files[i])].utf8) =>
              /\ Scanned(files[i])
              /\ Range(ScanItem(disk[Location(files[i])].content, files[i],
                                validation_config)) \subseteq Range(Report.errors)
         /\ SizeOf(files[i]) = fs_config.max_file_size + 1 =>
              /\ ~Scanned(files[i])
              /\ ErrorsAbout(Report.errors, files[i]) = <<>>
         /\ (fs_config.max_file_size = DefaultFsConfig.max_file_size
               /\ disk[Location(files[i])].utf8) => Scanned(files[i])

\* c.yaml is exactly as large as the ceiling and d.yaml one byte larger: the
\* first is scanned and gives its error, the second is skipped
C30_Witness ==
  /\ Finished
  /\ fs_config.paths = <<PathFYaml, PathFLarger>>
  /\ files = <<PathFYaml, PathFLarger>>
  /\ SizeOf(PathFYaml) = fs_config.max_file_size
  /\ SizeOf(PathFLarger) = fs_config.max_file_size + 1
  /\ visited = <<PathFYaml>>
  /\ Report.files_scanned = 1
  /\ Report.errors = <<MkError(PathFYaml, PathDollarId, "Malformed", GtsInvalid)>>

\* the same two files under the default ceiling: both are scanned
C30_WitnessDefault ==
  /\ Finished
  /\ fs_config.paths = <<PathFYaml, PathFLarger>>
  /\ fs_config.max_file_size = 10485760
  /\ visited = <<PathFYaml, PathFLarger>>
  /\ Report.files_scanned = 2

====
